---------------------------- MODULE Spec2Model ----------------------------
(***************************************************************************)
(* Kinetoscope: the streaming and decompression engine of the emulator     *)
(* (src/emulator-patches/kinetoscope.c, fetch.c) together with the shared  *)
(* run-length decoder (src/common/rle-common.h) and the SRAM march test    *)
(* (src/common/sram-common.h).                                             *)
(*                                                                         *)
(* Every C function is an operator from the emulation context (a record    *)
(* K holding the fields of kinetoscope_emulation_context_t, the two RLE    *)
(* counters and the fetch threads in flight) to the context after the      *)
(* call.  An action assembles K from the variables, applies the handler    *)
(* and commits the result.                                                 *)
(*                                                                         *)
(* Scaling.  The two SRAM banks are BankWords 16-bit words each instead of *)
(* 2^19; the outer header is HEADER_SIZE bytes instead of 8192, holding the *)
(* fields the device reads; the chunk index holds INDEX_ENTRIES offsets    *)
(* instead of 36032.  Everything else (command codes, messages,            *)
(* the XOR-1 store, the RLE grammar, uint32 wrap-around of the chunk       *)
(* counters) is as in the source.                                          *)
(*                                                                         *)
(* Threads.  The emulated console calls kinetoscope_read_16 / _write_16 on *)
(* the emulator thread.  Every fetch runs on a thread of its own           *)
(* (fetch.c:82-109): it calls the write callback for each fragment of the  *)
(* body, then the done callback, which runs the rest of the command's      *)
(* continuation chain on that fetch thread.  The steps of the two kinds of *)
(* thread interleave at these points: between two write callbacks, before  *)
(* the done callback, between the two stores of complete_command (a done   *)
(* callback clears command_busy, and returns the token in a later step),   *)
(* and, on the emulator thread, between flip_region's read of chunks_left  *)
(* and fetch_chunk's read of fetch_busy.                                   *)
(***************************************************************************)
EXTENDS Integers, Sequences, FiniteSets, TLC

(***************************************************************************)
(* Bounds of the model.                                                    *)
(***************************************************************************)
\* 16-bit words per SRAM bank (2^19 in the source).
BankWords == 32
\* Token handoffs the console makes in one run.
MaxCommands == 3
\* Bytes of a uint32_t (scaled from 4, so that its largest value is a number
\* the model checker can hold).
WordBytes == 2
\* Incidents over a run: a fetch that fails although the server holds the
\* bytes asked for, or a command that is run again for the same hand-off.
MaxIncidents == 1
\* Fetch threads alive at the same time.
MaxFetches == 2
\* The first fragment of a body has 1..MaxFrag bytes, or is the whole body.
MaxFrag == 1
\* Length of the compressed streams fed to the decoder on its own.
MaxStream == 4
\* Buffers of at most this length are written by the SRAM writer on its own.
MaxData == 1
\* Calls made to the SRAM writer on its own.
MaxCalls == 3
\* Validations of one header in a run of the validators on their own.
MaxValidations == 2
\* Calls of http_fetch in a run of the HTTP client, and the bytes each asks for.
MaxHttpCalls == 2
MaxHttpSize == 2
\* Calls of http_fetch in a run that is checked for termination.
MaxFairCalls == 1

(***************************************************************************)
(* Program constants.                                                      *)
(***************************************************************************)
CMD_ECHO == 0
CMD_LIST_VIDEOS == 1
CMD_START_VIDEO == 2
CMD_STOP_VIDEO == 3
CMD_FLIP_REGION == 4
CMD_GET_ERROR == 5
CMD_CONNECT_NET == 6
CMD_MARCH_TEST == 7
SRAM_MARCH_TEST_NUM_PASSES == 22

KINETOSCOPE_PORT_COMMAND == 16
KINETOSCOPE_PORT_ARG == 18
KINETOSCOPE_PORT_TOKEN == 8
KINETOSCOPE_PORT_ERROR == 10

TOKEN_CONTROL_TO_SEGA == 0
TOKEN_CONTROL_TO_STREAMER == 1

SRAM_BANK_0_OFFSET == 0
SRAM_BANK_1_OFFSET == 2 * BankWords
SRAM_SIZE == 2 * SRAM_BANK_1_OFFSET
SRAM_BANK_SIZE_BYTES == 2 * BankWords

\* uint32_t arithmetic of chunk_num, chunks_left, video_url_start_byte: the
\* modulus of a word of WordBytes bytes.
UINT32 == 256 ^ WordBytes

\* START_VIDEO rejects an index above this.
MAX_VIDEO_INDEX == 127

Min(a, b) == IF a < b THEN a ELSE b

\* a ^ 1 on a non-negative integer.
Xor1(a) == IF a % 2 = 0 THEN a + 1 ELSE a - 1

\* F applied to the value of x, which is computed once.
Once(x, F(_)) == CHOOSE r \in {F(v) : v \in {x}} : TRUE

RECURSIVE Flatten(_)
\* The concatenation of a sequence of byte sequences.
Flatten(ss) == IF ss = << >> THEN << >> ELSE Head(ss) \o Flatten(Tail(ss))

(***************************************************************************)
(* Error messages, as the ASCII codes of their characters.                 *)
(***************************************************************************)
\* "Underflow detected! Internet too slow?"
MSG_UNDERFLOW ==
  <<85, 110, 100, 101, 114, 102, 108, 111, 119, 32, 100, 101, 116, 101, 99,
    116, 101, 100, 33, 32, 73, 110, 116, 101, 114, 110, 101, 116, 32, 116,
    111, 111, 32, 115, 108, 111, 119, 63>>
\* "Unrecognized command 0x"
MSG_UNRECOGNIZED_PREFIX ==
  <<85, 110, 114, 101, 99, 111, 103, 110, 105, 122, 101, 100, 32, 99, 111,
    109, 109, 97, 110, 100, 32, 48, 120>>
\* "Failed to fetch video! (chunk "
MSG_CHUNK_PREFIX ==
  <<70, 97, 105, 108, 101, 100, 32, 116, 111, 32, 102, 101, 116, 99, 104, 32,
    118, 105, 100, 101, 111, 33, 32, 40, 99, 104, 117, 110, 107, 32>>
\* "Invalid video index requested! ("
MSG_BAD_INDEX_PREFIX ==
  <<73, 110, 118, 97, 108, 105, 100, 32, 118, 105, 100, 101, 111, 32, 105,
    110, 100, 101, 120, 32, 114, 101, 113, 117, 101, 115, 116, 101, 100, 33,
    32, 40>>
\* "Failed to fetch catalog index! ("
MSG_CATALOG_INDEX_PREFIX ==
  <<70, 97, 105, 108, 101, 100, 32, 116, 111, 32, 102, 101, 116, 99, 104, 32,
    99, 97, 116, 97, 108, 111, 103, 32, 105, 110, 100, 101, 120, 33, 32, 40>>
\* "Invalid catalog data at index! ("
MSG_CATALOG_DATA_PREFIX ==
  <<73, 110, 118, 97, 108, 105, 100, 32, 99, 97, 116, 97, 108, 111, 103, 32,
    100, 97, 116, 97, 32, 97, 116, 32, 105, 110, 100, 101, 120, 33, 32, 40>>
\* "Failed to fetch header!"
MSG_HEADER ==
  <<70, 97, 105, 108, 101, 100, 32, 116, 111, 32, 102, 101, 116, 99, 104, 32,
    104, 101, 97, 100, 101, 114, 33>>
\* "Failed to fetch index!"
MSG_INDEX ==
  <<70, 97, 105, 108, 101, 100, 32, 116, 111, 32, 102, 101, 116, 99, 104, 32,
    105, 110, 100, 101, 120, 33>>
\* "Failed to fetch first chunk!"
MSG_FIRST_CHUNK ==
  <<70, 97, 105, 108, 101, 100, 32, 116, 111, 32, 102, 101, 116, 99, 104, 32,
    102, 105, 114, 115, 116, 32, 99, 104, 117, 110, 107, 33>>
\* "Failed to download video catalog!"
MSG_CATALOG ==
  <<70, 97, 105, 108, 101, 100, 32, 116, 111, 32, 100, 111, 119, 110, 108,
    111, 97, 100, 32, 118, 105, 100, 101, 111, 32, 99, 97, 116, 97, 108, 111,
    103, 33>>

\* The ASCII code of one decimal or upper-case hexadecimal digit.
DigitChar(d) == IF d < 10 THEN 48 + d ELSE 55 + d

RECURSIVE FormatDec(_)
\* printf("%d") of a non-negative integer.
FormatDec(n) ==
  IF n < 10 THEN <<DigitChar(n)>>
  ELSE Append(FormatDec(n \div 10), DigitChar(n % 10))

RECURSIVE FormatHex(_)
\* printf("%X").
FormatHex(n) ==
  IF n < 16 THEN <<DigitChar(n)>>
  ELSE Append(FormatHex(n \div 16), DigitChar(n % 16))

\* printf("%02X"): at least two digits, zero padded.
FormatHex02(n) == IF n < 16 THEN <<48>> \o FormatHex(n) ELSE FormatHex(n)

\* "...(%d)": a prefix, a decimal number and the closing parenthesis.
MsgWithIndex(prefix, n) == prefix \o FormatDec(n) \o <<41>>

\* "Unrecognized command 0x%02X!"
MsgUnrecognized(cmd) == MSG_UNRECOGNIZED_PREFIX \o FormatHex02(cmd) \o <<33>>

(***************************************************************************)
(* SRAM writer (kinetoscope.c:182-202).                                    *)
(***************************************************************************)
reset_sram(k, bank) ==
  [k EXCEPT !.sram_offset =
     IF bank # 0 THEN SRAM_BANK_1_OFFSET ELSE SRAM_BANK_0_OFFSET]

\* A store loop that does not swap the bytes of a word.
SramStore_NoSwap(mem, offset, data) ==
  [a \in DOMAIN mem |->
     IF a - offset + 1 \in 1..Len(data) THEN data[a - offset + 1] ELSE mem[a]]

\* The bank an offset of the SRAM lies in.
BankOf(offset) == IF offset >= SRAM_BANK_1_OFFSET THEN 1 ELSE 0

\* A store loop that writes whole 16-bit words: an odd write also clears
\* the other byte of its last word.
SramStore_WholeWords(mem, offset, data) ==
  [a \in DOMAIN mem |->
     IF \E i \in 1..Len(data) : Xor1(offset + i - 1) = a
       THEN data[CHOOSE i \in 1..Len(data) : Xor1(offset + i - 1) = a]
       ELSE IF Len(data) % 2 = 1 /\ a = Xor1(offset + Len(data))
         THEN 0
         ELSE mem[a]]

\* The store loop of write_sram: data[i] goes to physical offset
\* (sram_offset + i - 1) ^ 1.
SramStore(mem, offset, data) ==
  [a \in DOMAIN mem |->
     IF \E i \in 1..Len(data) : Xor1(offset + i - 1) = a
       THEN data[CHOOSE i \in 1..Len(data) : Xor1(offset + i - 1) = a]
       ELSE mem[a]]

\* write_sram that drops the bytes of a write past the end but still moves
\* the cursor.
write_sram_AdvanceOnDrop(k, data) ==
  Once(k, LAMBDA kk :
    IF kk.sram_offset + Len(data) > SRAM_SIZE
      THEN [kk EXCEPT !.sram_offset = kk.sram_offset + Len(data)]
      ELSE [kk EXCEPT !.sram = SramStore(kk.sram, kk.sram_offset, data),
                     !.sram_offset = kk.sram_offset + Len(data),
                     !.filled = IF data = << >> THEN @
                                ELSE BankOf(kk.sram_offset)])

write_sram(k, data) ==
  Once(k, LAMBDA kk :
    IF kk.sram_offset + Len(data) > SRAM_SIZE
      THEN kk
      ELSE [kk EXCEPT !.sram = SramStore(kk.sram, kk.sram_offset, data),
                     !.sram_offset = kk.sram_offset + Len(data),
                     !.filled = IF data = << >> THEN @
                                ELSE BankOf(kk.sram_offset)])

(***************************************************************************)
(* RLE decoder (rle-common.h).  The decoder emits a sequence of SRAM_WRITE *)
(* calls: one per literal run (_rle_output_literals) and one per repeated  *)
(* byte (_rle_output_repeats).                                             *)
(***************************************************************************)
\* _rle_output_repeats: `repeats` one-byte writes.
rle_output_repeats(data_byte, repeats) == [i \in 1..repeats |-> <<data_byte>>]

\* _rle_output_literals: the bytes of one write, MIN(needed, bytes) of them.
rle_output_literals(data, needed) == SubSeq(data, 1, Min(needed, Len(data)))

RECURSIVE rle_loop(_, _)
\* The while loop of rle_to_sram (rle-common.h:66-102) over the rest of the
\* buffer.  st: [rep, lit, writes].
rle_loop(st, buf) ==
  IF buf = << >> THEN st
  ELSE
    LET control_byte == Head(buf)
        rest == Tail(buf)
        repeat == control_byte >= 128
        size == control_byte % 128
    IN  IF repeat
          THEN IF rest = << >>
                 THEN [st EXCEPT !.rep = size]
                 ELSE rle_loop(
                        [st EXCEPT !.writes =
                           @ \o rle_output_repeats(Head(rest), size)],
                        Tail(rest))
          ELSE LET out == rle_output_literals(rest, size)
               IN  rle_loop(
                     [st EXCEPT !.writes = @ \o <<out>>,
                                !.lit = size - Len(out)],
                     SubSeq(rest, Len(out) + 1, Len(rest)))

\* rle_to_sram that does not clear a pending repeat it has satisfied.
rle_decode_KeepsRepeat(rep, lit, buffer) ==
  IF buffer = << >> THEN [rep |-> rep, lit |-> lit, writes |-> << >>]
  ELSE IF rep # 0
    THEN rle_loop([rep |-> rep, lit |-> lit,
                   writes |-> rle_output_repeats(Head(buffer), rep)],
                  Tail(buffer))
  ELSE IF lit # 0
    THEN LET out == rle_output_literals(buffer, lit)
         IN  rle_loop([rep |-> rep, lit |-> lit - Len(out),
                       writes |-> <<out>>],
                      SubSeq(buffer, Len(out) + 1, Len(buffer)))
  ELSE rle_loop([rep |-> rep, lit |-> lit, writes |-> << >>], buffer)

\* rle_to_sram (rle-common.h:41-103) on the decoder state [rep, lit]:
\* the state after the call and the SRAM_WRITE calls it made, in order.
rle_decode(rep, lit, buffer) ==
  IF buffer = << >> THEN [rep |-> rep, lit |-> lit, writes |-> << >>]
  ELSE IF rep # 0
    THEN rle_loop([rep |-> 0, lit |-> lit,
                   writes |-> rle_output_repeats(Head(buffer), rep)],
                  Tail(buffer))
  ELSE IF lit # 0
    THEN LET out == rle_output_literals(buffer, lit)
         IN  rle_loop([rep |-> rep, lit |-> lit - Len(out),
                       writes |-> <<out>>],
                      SubSeq(buffer, Len(out) + 1, Len(buffer)))
  ELSE rle_loop([rep |-> rep, lit |-> lit, writes |-> << >>], buffer)

RECURSIVE write_all(_, _)
\* The SRAM_WRITE calls of one decoder run, applied in order.
write_all(k, writes) ==
  Once(k, LAMBDA kk :
    IF writes = << >> THEN kk
    ELSE IF Len(writes) = 1 THEN write_sram(kk, writes[1])
    ELSE LET half == Len(writes) \div 2
         IN  write_all(write_all(kk, SubSeq(writes, 1, half)),
                       SubSeq(writes, half + 1, Len(writes))))

rle_to_sram(k, buffer) ==
  Once(k, LAMBDA kk :
    LET r == rle_decode(kk.rle_pending_repeats, kk.rle_pending_literals, buffer)
    IN  [write_all(kk, r.writes) EXCEPT !.rle_pending_repeats = r.rep,
                                       !.rle_pending_literals = r.lit])

rle_reset(k) ==
  [k EXCEPT !.rle_pending_repeats = 0, !.rle_pending_literals = 0]


(***************************************************************************)
(* Wire format (segavideo_format.h).  All multi-byte integers are          *)
(* big-endian in the file; the emulator reads them on a little-endian host *)
(* and converts with ntohl.                                                *)
(***************************************************************************)
BE16(n) == <<(n \div 256) % 256, n % 256>>

RECURSIVE BigEndian(_, _)
\* The w low bytes of n, most significant first.
BigEndian(n, w) ==
  IF w = 0 THEN << >> ELSE BigEndian(n \div 256, w - 1) \o <<n % 256>>

RECURSIVE LittleEndian(_, _)
\* The w low bytes of n, least significant first.
LittleEndian(n, w) ==
  IF w = 0 THEN << >> ELSE <<n % 256>> \o LittleEndian(n \div 256, w - 1)

RECURSIVE LoadLE(_, _, _)
\* The number whose w bytes, least significant first, start at offset off.
LoadLE(bytes, off, w) ==
  IF w = 0 THEN 0 ELSE bytes[off + 1] + 256 * LoadLE(bytes, off + 1, w - 1)

\* A uint32_t as the file stores it.
BE32(n) == BigEndian(n, WordBytes)

\* A uint32_t field read from memory at byte offset off (little-endian host).
Load32(bytes, off) == LoadLE(bytes, off, WordBytes)

\* The bytes a uint32_t store leaves in memory (little-endian host).
Store32(x) == LittleEndian(x, WordBytes)

\* ntohl on a little-endian host: the bytes of the word reversed.
ntohl(x) == LoadLE(BigEndian(x, WordBytes), 0, WordBytes)

\* Byte offsets of the fields of SegaVideoHeader the device reads (scaled:
\* magic[2], format, chunkSize, totalChunks, relative_url[2], compression).
H_MAGIC == 0
H_FORMAT == 2
H_CHUNK_SIZE == 4
\* sizeof(header.relative_url), scaled from 128.
RELATIVE_URL_SIZE == 2
H_TOTAL_CHUNKS == H_CHUNK_SIZE + WordBytes
H_RELATIVE_URL == H_TOTAL_CHUNKS + WordBytes
H_COMPRESSION == H_RELATIVE_URL + RELATIVE_URL_SIZE
\* sizeof(SegaVideoHeader), scaled from 8192.
HEADER_SIZE == H_COMPRESSION + 2
\* Entries of SegaVideoIndex.chunk_offset, scaled from 36032.
INDEX_ENTRIES == 4
INDEX_SIZE == WordBytes * INDEX_ENTRIES
SEGA_CHUNK_OFFSET_EOF == UINT32 - 1
\* SEGAVIDEO_HEADER_MAGIC, scaled to its first two characters "wh".
SEGAVIDEO_HEADER_MAGIC == <<119, 104>>
SEGAVIDEO_HEADER_FORMAT == 3

\* A NULL char* (no string contains a zero byte).
NULL == <<0>>
\* VIDEO_SERVER_CATALOG_URL and a video's URL, as the path below
\* VIDEO_SERVER_BASE_URL: "c" for catalog.bin, "v" for the video.
VIDEO_SERVER_CATALOG_URL == <<99>>

(***************************************************************************)
(* What the video server holds: a catalog of one entry and the video that  *)
(* entry names.  The kind of video is chosen when a run starts.            *)
(***************************************************************************)
VideoKinds == {"raw3", "rle3", "raw1", "raw0", "badmagic"}

\* A raw video of three chunks of `size` bytes; the bytes of chunk n (from
\* 0) are 16 * (n + 1) .. 16 * (n + 1) + 15.
PlaceVideo(size) ==
  [magic |-> SEGAVIDEO_HEADER_MAGIC, format |-> 3, chunkSize |-> size,
   totalChunks |-> 3, compression |-> 0, url |-> <<118, 0>>,
   chunks |-> [n \in 1..3 |-> [j \in 1..size |-> 16 * n + (j % 16)]]]

VideoDesc(v) ==
  CASE v = "half3" -> PlaceVideo(BankWords)
    [] v = "near3" -> PlaceVideo(SRAM_BANK_SIZE_BYTES - HEADER_SIZE - 1)
    [] v = "full3" -> PlaceVideo(SRAM_BANK_SIZE_BYTES - HEADER_SIZE)
    [] v = "raw3" ->
         [magic |-> SEGAVIDEO_HEADER_MAGIC, format |-> 3, chunkSize |-> 2,
          totalChunks |-> 3, compression |-> 0, url |-> <<118, 0>>,
          chunks |-> << <<17, 18>>, <<33, 34>>, <<49, 50>> >>]
    [] v = "rle3" ->
         \* chunk 0: repeat 65 twice, literal 66; chunk 1: literal 67 68 69;
         \* chunk 2: repeat 70 three times
         [magic |-> SEGAVIDEO_HEADER_MAGIC, format |-> 3, chunkSize |-> 3,
          totalChunks |-> 3, compression |-> 1, url |-> <<118, 0>>,
          chunks |-> << <<130, 65, 1, 66>>, <<3, 67, 68, 69>>, <<131, 70>> >>]
    [] v = "raw1" ->
         [magic |-> SEGAVIDEO_HEADER_MAGIC, format |-> 3, chunkSize |-> 2,
          totalChunks |-> 1, compression |-> 0, url |-> <<118, 0>>,
          chunks |-> << <<81, 82>> >>]
    [] v = "raw0" ->
         \* a header that announces no chunk, followed by one chunk of data
         [magic |-> SEGAVIDEO_HEADER_MAGIC, format |-> 3, chunkSize |-> 2,
          totalChunks |-> 0, compression |-> 0, url |-> <<118, 0>>,
          chunks |-> << <<97, 98>> >>]
    [] v = "badmagic" ->
         [magic |-> <<119, 72>>, format |-> 3, chunkSize |-> 2,
          totalChunks |-> 1, compression |-> 0, url |-> <<118, 0>>,
          chunks |-> << <<113, 114>> >>]

FileHeader(d, url) ==
  d.magic \o BE16(d.format) \o BE32(d.chunkSize) \o BE32(d.totalChunks)
    \o url \o BE16(d.compression)

RECURSIVE WireLen(_, _)
\* The length of the first n chunks of a video as stored in its file.
WireLen(chunks, n) ==
  IF n = 0 THEN 0 ELSE WireLen(chunks, n - 1) + Len(chunks[n])

\* The file offset at which chunk n (from 0) starts.
ChunkOffset(d, n) ==
  HEADER_SIZE + (IF d.compression # 0 THEN INDEX_SIZE ELSE 0)
    + WireLen(d.chunks, n)

\* The chunk index of a compressed video: one offset per chunk, the end
\* offset of the last one, then SEGA_CHUNK_OFFSET_EOF.
VideoIndex(d) ==
  Flatten([i \in 1..INDEX_ENTRIES |->
             BE32(IF i - 1 <= Len(d.chunks) THEN ChunkOffset(d, i - 1)
                  ELSE SEGA_CHUNK_OFFSET_EOF)])

VideoFile(d) ==
  FileHeader(d, <<0, 0>>)
    \o (IF d.compression # 0 THEN VideoIndex(d) ELSE << >>)
    \o Flatten(d.chunks)

CatalogFile(d) == FileHeader(d, d.url)

\* The file behind a URL; << >> when the server has none (404).
FileOf(sv, url) ==
  IF url = VIDEO_SERVER_CATALOG_URL THEN CatalogFile(VideoDesc(sv))
  ELSE IF url = <<118>> THEN VideoFile(VideoDesc(sv))
  ELSE << >>

\* The body of the response to a fetch: the whole file when size is -1
\* ((size_t)-1, no Range header), else the bytes of the range the file has.
FetchBody(sv, url, first_byte, size) ==
  LET file == FileOf(sv, url)
  IN  IF size = -1 THEN file
      ELSE SubSeq(file, first_byte + 1, Min(first_byte + size, Len(file)))


(***************************************************************************)
(* State.                                                                  *)
(***************************************************************************)
VARIABLES
  \* kinetoscope_emulation_context_t (kinetoscope.c:85-133)
  sram,                  \* sram_buffer: physical offset -> byte
  sram_offset,           \* position we write to next
  command, arg, token, error,
  error_str,             \* NULL or the latched message
  ready_time,            \* "never", "pending" (in the future) or "reached"
  command_busy,
  video_url, chunk_size, chunk_num, chunks_left, video_url_start_byte,
  compressed,
  header,                \* the bytes of kinetoscope.header
  index,                 \* the bytes of kinetoscope.index
  fetch_busy,
  \* rle-common.h:11-15
  rle_pending_repeats, rle_pending_literals,
  \* the fetch threads alive, oldest first (fetch.c:36-42, 82-109)
  fetches,
  \* where the emulator thread is: "idle" (outside the emulator),
  \* "fetch_chunk" (inside flip_region, chunks_left read, fetch_busy not yet),
  \* "echo" (inside CMD_ECHO, between reset_sram and write_sram) or "march"
  \* (inside sram_march_test, after SRAM_MARCH_TEST_START)
  emu_pc,
  \* the emulator process died on a NULL dereference
  crashed,
  \* history: the fetches the last step started
  started,
  \* history: the bank write_sram last stored to (-1: none yet)
  filled,
  \* the video the server holds
  served,
  \* history: token handoffs so far; execute_command runs since the last
  \* one; runs beyond the first of a hand-off
  handoffs, executions, reruns,
  \* history: fetches that have failed
  failures,
  \* the decoder and the SRAM writer on their own: the input drawn at the
  \* start, how much of it has been fed, and the bytes given to SRAM_WRITE
  stream, fed, written,
  \* the firmware's HTTP client (http.cc:48-54): the Client with its
  \* connection, the remembered server and port, and error_buffer
  \* (error.cc:21)
  client, current_server, current_port, error_buffer,
  \* http_fetch: where it is ("idle": not running, "headers": in the read
  \* loop of read_response_headers, "body": in the body loop), its
  \* arguments, response_buffer, bytes_left and header_data.status_code
  \* (-1: no headers parsed)
  http_pc, request, response_buffer, bytes_left, status_code,
  \* history of the last http_fetch: the calls of the sink with their
  \* answers, what it returned ("none" while it runs), whether it made a
  \* new connection; and the number of calls so far
  sink_calls, result, opened, http_calls,
  \* the error latch the console reads (SYNC_PIN__ERR_FLAGGED) and the
  \* firmware's SRAM writer (sram.cc:16-17): the byte that waits for its
  \* partner (-1: none), the bank being written (-1: none), and the words
  \* clocked into that bank since its write address was reset
  err_flagged, leftover, active_bank_pin, sram_words,
  \* the player inside sendCommand, one port access at a time: where it is
  \* ("idle": outside, "command", "arg", "token": about to write that port),
  \* its arguments, and what the last call returned ("none" while it runs)
  player_pc, sending, send_result,
  \* the player's playback state (segavideo_player.c:39-44): the chunk being
  \* played as the addresses of its first byte and of the byte after its
  \* last, its number, and the header's chunk count
  currentChunk, currentChunkNum, totalChunks

ctx_vars ==
  <<sram, sram_offset, command, arg, token, error, error_str, ready_time,
    command_busy, video_url, chunk_size, chunk_num, chunks_left,
    video_url_start_byte, compressed, header, index, fetch_busy,
    rle_pending_repeats, rle_pending_literals, fetches, emu_pc, crashed,
    started, filled>>

sram_hw == <<leftover, active_bank_pin, sram_words>>

fw_vars ==
  <<client, current_server, current_port, error_buffer, http_pc, request,
    response_buffer, bytes_left, status_code, sink_calls, result, opened,
    http_calls, err_flagged, sram_hw>>

playback_vars == <<currentChunk, currentChunkNum, totalChunks>>

player_vars == <<player_pc, sending, send_result, playback_vars>>

vars ==
  <<ctx_vars, served, handoffs, executions, reruns, failures, stream, fed,
    written, fw_vars, player_vars>>

\* The player outside sendCommand.
PlayerInit ==
  /\ player_pc = "idle"
  /\ sending = <<0, 0>>
  /\ send_result = "none"
  /\ currentChunk = [start |-> 0, end |-> 0]
  /\ currentChunkNum = 0
  /\ totalChunks = 0

\* Before http_init: no Client, nothing remembered.
FwInit ==
  /\ client = [set |-> FALSE, open |-> FALSE, arrived |-> << >>,
               pending |-> << >>]
  /\ current_server = << >>
  /\ current_port = 0
  /\ error_buffer = << >>
  /\ http_pc = "idle"
  /\ request = [server |-> << >>, port |-> 0, size |-> 0]
  /\ response_buffer = << >>
  /\ bytes_left = 0
  /\ status_code = -1
  /\ sink_calls = << >>
  /\ result = "none"
  /\ opened = FALSE
  /\ http_calls = 0
  /\ err_flagged = FALSE
  /\ leftover = -1
  /\ active_bank_pin = -1
  /\ sram_words = << >>

\* The emulation context as one value.  `returning` is set by
\* complete_command during a step: its store to the token is still to come.
K ==
  [sram |-> sram, sram_offset |-> sram_offset, command |-> command,
   arg |-> arg, token |-> token, error |-> error, error_str |-> error_str,
   ready_time |-> ready_time, command_busy |-> command_busy,
   video_url |-> video_url, chunk_size |-> chunk_size,
   chunk_num |-> chunk_num, chunks_left |-> chunks_left,
   video_url_start_byte |-> video_url_start_byte, compressed |-> compressed,
   header |-> header, index |-> index, fetch_busy |-> fetch_busy,
   rle_pending_repeats |-> rle_pending_repeats,
   rle_pending_literals |-> rle_pending_literals,
   fetches |-> fetches, emu_pc |-> emu_pc, crashed |-> crashed,
   started |-> << >>, filled |-> filled,
   served |-> served, returning |-> FALSE, at_null |-> [fault |-> TRUE, text |-> << >>]]

\* The context after a step becomes the state (k is evaluated once).
Commit(k) ==
  \E kk \in {k} :
    /\ sram' = kk.sram
    /\ sram_offset' = kk.sram_offset
    /\ command' = kk.command
    /\ arg' = kk.arg
    /\ token' = kk.token
    /\ error' = kk.error
    /\ error_str' = kk.error_str
    /\ ready_time' = kk.ready_time
    /\ command_busy' = kk.command_busy
    /\ video_url' = kk.video_url
    /\ chunk_size' = kk.chunk_size
    /\ chunk_num' = kk.chunk_num
    /\ chunks_left' = kk.chunks_left
    /\ video_url_start_byte' = kk.video_url_start_byte
    /\ compressed' = kk.compressed
    /\ header' = kk.header
    /\ index' = kk.index
    /\ fetch_busy' = kk.fetch_busy
    /\ rle_pending_repeats' = kk.rle_pending_repeats
    /\ rle_pending_literals' = kk.rle_pending_literals
    /\ fetches' = kk.fetches
    /\ emu_pc' = kk.emu_pc
    /\ crashed' = kk.crashed
    /\ started' = kk.started
    /\ filled' = kk.filled

\* report_error without the latch: a later error replaces the message of
\* an error that is still set.
report_error_Overwrite(k, message) ==
  [k EXCEPT !.error = 1, !.error_str = message]

(***************************************************************************)
(* Errors (kinetoscope.c:204-226).                                         *)
(***************************************************************************)
report_error(k, message) ==
  Once(k, LAMBDA kk :
    IF kk.error = 0
      THEN [kk EXCEPT !.error = 1, !.error_str = message]
      ELSE kk)

\* What strlen and the copy of write_sram find at address 0, by the build:
\* a fault, or the string that lies there.
NullReads ==
  {[fault |-> TRUE, text |-> << >>]} \cup
  {[fault |-> FALSE, text |-> t] : t \in {<< >>, <<85>>}}

\* strlen(NULL) when no error was ever latched: undefined behaviour, the
\* process dies or the bytes at address 0 are copied (k.at_null).
write_error_to_sram(k) ==
  Once(k, LAMBDA kk :
    IF kk.error_str = NULL
      THEN IF kk.at_null.fault
             THEN [reset_sram(kk, 0) EXCEPT !.crashed = TRUE]
             ELSE write_sram(reset_sram(kk, 0), kk.at_null.text)
      ELSE write_sram(reset_sram(kk, 0), kk.error_str))

(***************************************************************************)
(* Fetching (fetch.c:125-181, kinetoscope.c:229-309).  A fetch thread:     *)
(* sink "sram" (http_data_to_sram) or the buffer "header" / "index"        *)
(* (http_data_to_buffer); done is the callback that runs when the transfer *)
(* ends, user_ctx the continuation fetch_chunk_done calls after it.        *)
(***************************************************************************)
FetchContext(sink, url, first_byte, size, done, user_ctx) ==
  [sink |-> sink, url |-> url, first_byte |-> first_byte, size |-> size,
   sent |-> 0, done |-> done, user_ctx |-> user_ctx, pc |-> "transfer"]

\* pthread_create (fetch.c:177-178).
fetch_range_async(k, ctx) ==
  [k EXCEPT !.fetches = Append(@, ctx), !.started = Append(@, ctx)]

fetch_range_to_sram(k, url, is_compressed, first_byte, size, done, user_ctx) ==
  fetch_range_async(
    rle_reset([k EXCEPT !.compressed = is_compressed]),
    FetchContext("sram", url, first_byte, size, done, user_ctx))

fetch_to_sram(k, url, is_compressed, done, user_ctx) ==
  fetch_range_to_sram(k, url, is_compressed, 0, -1, done, user_ctx)

fetch_range_to_buffer(k, url, buffer, first_byte, size, done) ==
  fetch_range_async(k, FetchContext(buffer, url, first_byte, size, done, "NULL"))

fetch_to_buffer(k, url, buffer, size, done) ==
  fetch_range_to_buffer(k, url, buffer, 0, size, done)

http_data_to_sram(k, data) ==
  Once(k, LAMBDA kk :
    IF kk.compressed THEN rle_to_sram(kk, data) ELSE write_sram(kk, data))

\* memcpy of what still fits below buffer->max at buffer->offset.
BufferCopy(buf, offset, max, data) ==
  LET to_write == Min(Len(data), max - offset)
  IN  [j \in 1..Len(buf) |->
         IF offset < j /\ j <= offset + to_write THEN data[j - offset]
         ELSE buf[j]]

http_data_to_buffer(k, ctx, data) ==
  Once(k, LAMBDA kk :
    IF ctx.sink = "header"
      THEN [kk EXCEPT !.header = BufferCopy(@, ctx.sent, ctx.size, data)]
      ELSE [kk EXCEPT !.index = BufferCopy(@, ctx.sent, ctx.size, data)])

(***************************************************************************)
(* Streaming (kinetoscope.c:311-537).                                      *)
(***************************************************************************)
stop_video(k) == k

\* index.chunk_offset[i]; past the scaled array the entries are EOF, as in
\* the padding of the full-size index.
ChunkOffsetAt(k, i) ==
  IF i < INDEX_ENTRIES THEN Load32(k.index, WordBytes * i) ELSE SEGA_CHUNK_OFFSET_EOF

next_chunk_size(k) ==
  Once(k, LAMBDA kk :
    IF kk.compressed
      THEN (ChunkOffsetAt(kk, kk.chunk_num + 1) - kk.video_url_start_byte) % UINT32
      ELSE kk.chunk_size)

complete_command(k) == [k EXCEPT !.command_busy = FALSE, !.returning = TRUE]

\* fetch_chunk without the busy flag: the fetch is started but fetch_busy
\* is left clear.
fetch_chunk_NoBusy(k, done_callback) ==
  Once(k, LAMBDA kk :
    IF kk.fetch_busy
      THEN report_error(kk, MSG_UNDERFLOW)
      ELSE fetch_range_to_sram(kk, kk.video_url, kk.compressed,
                               kk.video_url_start_byte, next_chunk_size(kk),
                               "fetch_chunk_done", done_callback))

fetch_chunk(k, done_callback) ==
  Once(k, LAMBDA kk :
    IF kk.fetch_busy
      THEN report_error(kk, MSG_UNDERFLOW)
      ELSE fetch_range_to_sram([kk EXCEPT !.fetch_busy = TRUE],
                               kk.video_url, kk.compressed,
                               kk.video_url_start_byte, next_chunk_size(kk),
                               "fetch_chunk_done", done_callback))

start_video_4(k, ok) == complete_command(k)

start_video_3(k, ok) ==
  Once(k, LAMBDA kk :
    IF ~ok THEN complete_command(report_error(kk, MSG_FIRST_CHUNK))
    ELSE IF kk.chunks_left # 0 THEN fetch_chunk(kk, "start_video_4")
    ELSE start_video_4(kk, TRUE))

\* fetch_chunk_done that leaves the cursor where the chunk ended.
fetch_chunk_done_NoReset(k, ok, user_ctx) ==
  Once(k, LAMBDA kk :
    LET k1 == IF ok
                THEN LET size == next_chunk_size(kk)
                         n == (kk.chunk_num + 1) % UINT32
                     IN  [kk EXCEPT !.chunk_num = n,
                                   !.chunks_left = (@ - 1) % UINT32,
                                   !.video_url_start_byte = (@ + size) % UINT32]
                ELSE report_error(kk, MsgWithIndex(MSG_CHUNK_PREFIX, kk.chunk_num))
        k2 == [k1 EXCEPT !.fetch_busy = FALSE]
    IN  CASE user_ctx = "start_video_3" -> start_video_3(k2, ok)
          [] user_ctx = "start_video_4" -> start_video_4(k2, ok)
          [] OTHER -> k2)

fetch_chunk_done(k, ok, user_ctx) ==
  Once(k, LAMBDA kk :
    LET k1 == IF ok
                THEN LET size == next_chunk_size(kk)
                         n == (kk.chunk_num + 1) % UINT32
                     IN  reset_sram(
                           [kk EXCEPT !.chunk_num = n,
                                     !.chunks_left = (@ - 1) % UINT32,
                                     !.video_url_start_byte = (@ + size) % UINT32],
                           n % 2)
                ELSE report_error(kk, MsgWithIndex(MSG_CHUNK_PREFIX, kk.chunk_num))
        k2 == [k1 EXCEPT !.fetch_busy = FALSE]
    IN  CASE user_ctx = "start_video_3" -> start_video_3(k2, ok)
          [] user_ctx = "start_video_4" -> start_video_4(k2, ok)
          [] OTHER -> k2)

\* The in-place ntohl of every entry of the index (kinetoscope.c:470-475).
SwapIndex(bytes) ==
  Flatten([i \in 1..INDEX_ENTRIES |-> Store32(ntohl(Load32(bytes, WordBytes * (i - 1))))])

start_video_2(k, ok) ==
  Once(k, LAMBDA kk :
    IF ~ok THEN complete_command(report_error(kk, MSG_INDEX))
    ELSE
      LET k1 == IF kk.compressed THEN [kk EXCEPT !.index = SwapIndex(@)] ELSE kk
          k2 == [k1 EXCEPT
                   !.chunk_size = ntohl(Load32(k1.header, H_CHUNK_SIZE)),
                   !.chunks_left = ntohl(Load32(k1.header, H_TOTAL_CHUNKS)),
                   !.chunk_num = 0]
          k3 == write_sram(reset_sram(k2, 0), k2.header)
          k4 == [k3 EXCEPT !.video_url_start_byte =
                   IF k3.compressed THEN ChunkOffsetAt(k3, 0) ELSE HEADER_SIZE]
      IN  fetch_chunk(k4, "start_video_3"))

\* start_video_1 that leaves header.compression as fetched.
start_video_1_KeepsField(k, ok) ==
  Once(k, LAMBDA kk :
    IF ~ok THEN complete_command(report_error(kk, MSG_HEADER))
    ELSE
      LET is_compressed ==
            kk.header[H_COMPRESSION + 1] # 0 \/ kk.header[H_COMPRESSION + 2] # 0
          k1 == [kk EXCEPT !.compressed = is_compressed]
      IN  IF is_compressed
            THEN fetch_range_to_buffer(k1, k1.video_url, "index",
                                       HEADER_SIZE, INDEX_SIZE, "start_video_2")
            ELSE start_video_2(k1, TRUE))

start_video_1(k, ok) ==
  Once(k, LAMBDA kk :
    IF ~ok THEN complete_command(report_error(kk, MSG_HEADER))
    ELSE
      LET is_compressed ==
            kk.header[H_COMPRESSION + 1] # 0 \/ kk.header[H_COMPRESSION + 2] # 0
          k1 == [kk EXCEPT !.compressed = is_compressed,
                          !.header[H_COMPRESSION + 1] = 0,
                          !.header[H_COMPRESSION + 2] = 0]
      IN  IF is_compressed
            THEN fetch_range_to_buffer(k1, k1.video_url, "index",
                                       HEADER_SIZE, INDEX_SIZE, "start_video_2")
            ELSE start_video_2(k1, TRUE))

\* strnlen(header.relative_url, sizeof(header.relative_url)).
RelativeUrlLen(hdr) ==
  IF hdr[H_RELATIVE_URL + 1] = 0 THEN 0
  ELSE IF hdr[H_RELATIVE_URL + 2] = 0 THEN 1
  ELSE RELATIVE_URL_SIZE

start_video_0(k, ok) ==
  Once(k, LAMBDA kk :
    IF ~ok
      THEN complete_command(
             report_error(kk, MsgWithIndex(MSG_CATALOG_INDEX_PREFIX, kk.arg)))
    ELSE IF RelativeUrlLen(kk.header) = RELATIVE_URL_SIZE
      THEN complete_command(
             report_error(kk, MsgWithIndex(MSG_CATALOG_DATA_PREFIX, kk.arg)))
    ELSE
      LET path == SubSeq(kk.header, H_RELATIVE_URL + 1,
                         H_RELATIVE_URL + RelativeUrlLen(kk.header))
          k1 == [kk EXCEPT !.video_url = path]
      IN  fetch_to_buffer(k1, k1.video_url, "header", HEADER_SIZE,
                          "start_video_1"))

\* start_video_async that rejects the last valid index too.
start_video_async_OffByOne(k) ==
  Once(k, LAMBDA kk :
    IF kk.arg >= MAX_VIDEO_INDEX
      THEN complete_command(
             report_error(kk, MsgWithIndex(MSG_BAD_INDEX_PREFIX, kk.arg)))
      ELSE fetch_range_to_buffer(kk, VIDEO_SERVER_CATALOG_URL, "header",
                                 HEADER_SIZE * kk.arg, HEADER_SIZE,
                                 "start_video_0"))

start_video_async(k) ==
  Once(k, LAMBDA kk :
    IF kk.arg > MAX_VIDEO_INDEX
      THEN complete_command(
             report_error(kk, MsgWithIndex(MSG_BAD_INDEX_PREFIX, kk.arg)))
      ELSE fetch_range_to_buffer(kk, VIDEO_SERVER_CATALOG_URL, "header",
                                 HEADER_SIZE * kk.arg, HEADER_SIZE,
                                 "start_video_0"))

\* flip_region up to the call of fetch_chunk: the emulator thread has read
\* chunks_left and goes on to fetch_chunk in its next step.
flip_region(k) ==
  Once(k, LAMBDA kk :
    IF kk.chunks_left = 0 THEN kk ELSE [kk EXCEPT !.emu_pc = "fetch_chunk"])

get_video_list_0(k, ok) ==
  Once(k, LAMBDA kk :
    complete_command(IF ~ok THEN report_error(kk, MSG_CATALOG) ELSE kk))

get_video_list_async(k) ==
  fetch_to_sram(reset_sram(k, 0), VIDEO_SERVER_CATALOG_URL, FALSE,
                "get_video_list_0", "NULL")


(***************************************************************************)
(* SRAM march test (sram-common.h:22-103), with the emulator's macros      *)
(* (kinetoscope.c:72-74): every byte is one write_sram of size 1.          *)
(***************************************************************************)
RECURSIVE MarchPrimes(_, _, _, _)
\* Passes 20 and 21: the bytes from `offset` on, given the rolling counter.
MarchPrimes(offset, counter, prime_index, primes) ==
  IF offset >= SRAM_BANK_SIZE_BYTES THEN << >>
  ELSE
    LET roll == counter = primes[prime_index + 1] * 255
        pi == IF roll THEN (prime_index + 1) % 8 ELSE prime_index
        c == IF roll THEN 0 ELSE counter
    IN  <<c % primes[pi + 1]>> \o MarchPrimes(offset + 1, c + 1, pi, primes)

\* The bytes pass `pass` writes, in order (none for a pass above 21).
MarchData(pass) ==
  IF pass <= 15
    THEN [i \in 1..SRAM_BANK_SIZE_BYTES |-> 2 ^ (((i - 1) + pass \div 2) % 8)]
  ELSE IF pass <= 17
    THEN [i \in 1..SRAM_BANK_SIZE_BYTES |-> (i - 1) % 256]
  ELSE IF pass <= 19
    THEN [i \in 1..SRAM_BANK_SIZE_BYTES |-> 255 - ((i - 1) % 256)]
  ELSE IF pass <= 21
    THEN MarchPrimes(0, (pass % 2) * 199, 0,
                     <<251, 241, 239, 233, 229, 227, 223, 211>>)
  ELSE << >>

\* The SRAM_MARCH_TEST_DATA calls of a pass: one write_sram per byte.
march_write(k, pass) ==
  LET data == MarchData(pass)
  IN  write_all(k, [i \in 1..Len(data) |-> <<data[i]>>])

sram_march_test(k, pass) == march_write(reset_sram(k, pass % 2), pass)

\* The console's sram_march_test (hardware-test main.c:45-56): every byte
\* read from the bank of the pass is the byte the pass prescribes.
MarchReads(mem, pass) ==
  \A offset \in 0..(SRAM_BANK_SIZE_BYTES - 1) :
    mem[Xor1((IF pass % 2 # 0 THEN SRAM_BANK_1_OFFSET ELSE SRAM_BANK_0_OFFSET)
             + offset)]
      = MarchData(pass)[offset + 1]

(***************************************************************************)
(* Command processor (kinetoscope.c:539-637).                              *)
(***************************************************************************)
\* (const uint8_t*)&value of a uint16_t on a little-endian host.
Bytes16(value) == <<value % 256, (value \div 256) % 256>>

\* A fetch thread that writes the SRAM is alive: its write callback can run
\* between two calls the emulator thread makes.
SramFetchAlive(k) ==
  \E i \in 1..Len(k.fetches) :
    k.fetches[i].pc = "transfer" /\ k.fetches[i].sink = "sram"

\* The write of CMD_ECHO (kinetoscope.c:547) and the return of the command.
echo_write(k) ==
  complete_command(write_sram([k EXCEPT !.emu_pc = "idle"], Bytes16(k.arg)))

execute_command(k) ==
  LET k0 == [k EXCEPT !.command_busy = TRUE]
  IN  CASE k0.command = CMD_ECHO ->
             \* reset_sram(0), then write_sram in this step or, when a
             \* fetch thread may write in between, in the next one
             IF SramFetchAlive(k0)
               THEN [reset_sram(k0, 0) EXCEPT !.emu_pc = "echo"]
               ELSE echo_write(reset_sram(k0, 0))
        [] k0.command = CMD_LIST_VIDEOS -> get_video_list_async(k0)
        [] k0.command = CMD_START_VIDEO -> start_video_async(k0)
        [] k0.command = CMD_STOP_VIDEO -> complete_command(stop_video(k0))
        [] k0.command = CMD_FLIP_REGION ->
             LET k1 == flip_region(k0)
             IN  IF k1.emu_pc = "fetch_chunk" THEN k1 ELSE complete_command(k1)
        [] k0.command = CMD_GET_ERROR ->
             complete_command(write_error_to_sram(k0))
        [] k0.command = CMD_CONNECT_NET -> complete_command(k0)
        [] k0.command = CMD_MARCH_TEST ->
             \* SRAM_MARCH_TEST_START, then the writes in this step or,
             \* when a fetch thread may write in between, in the next one
             IF SramFetchAlive(k0)
               THEN [reset_sram(k0, k0.arg % 2) EXCEPT !.emu_pc = "march"]
               ELSE complete_command(sram_march_test(k0, k0.arg))
        [] OTHER ->
             complete_command(report_error(k0, MsgUnrecognized(k0.command)))

\* kinetoscope_write_16 whose write to the error port also drops the message.
kinetoscope_write_16_ClearsString(k, address, value) ==
  Once(k, LAMBDA kk :
    CASE address = KINETOSCOPE_PORT_COMMAND -> [kk EXCEPT !.command = value]
      [] address = KINETOSCOPE_PORT_ARG -> [kk EXCEPT !.arg = value]
      [] address = KINETOSCOPE_PORT_TOKEN ->
           [kk EXCEPT !.token = TOKEN_CONTROL_TO_STREAMER,
                     !.ready_time = "pending"]
      [] address = KINETOSCOPE_PORT_ERROR ->
           [kk EXCEPT !.error = 0, !.error_str = NULL]
      [] OTHER -> kk)

kinetoscope_write_16(k, address, value) ==
  Once(k, LAMBDA kk :
    CASE address = KINETOSCOPE_PORT_COMMAND -> [kk EXCEPT !.command = value]
      [] address = KINETOSCOPE_PORT_ARG -> [kk EXCEPT !.arg = value]
      [] address = KINETOSCOPE_PORT_TOKEN ->
           [kk EXCEPT !.token = TOKEN_CONTROL_TO_STREAMER,
                     !.ready_time = "pending"]
      [] address = KINETOSCOPE_PORT_ERROR -> [kk EXCEPT !.error = 0]
      [] OTHER -> kk)

\* The condition under which a register read runs the command.
ReadExecutes(k) ==
  Once(k, LAMBDA kk :
    /\ kk.ready_time = "reached"
    /\ kk.token = TOKEN_CONTROL_TO_STREAMER
    /\ ~kk.command_busy)

kinetoscope_read_16(k, address) ==
  Once(k, LAMBDA kk :
    IF ReadExecutes(kk) THEN execute_command(kk) ELSE kk)

\* complete_command's store to the token, made in the same step when the
\* command completes on the emulator thread ...
EmuFinish(k) ==
  Once(k, LAMBDA kk :
    IF kk.returning
      THEN [kk EXCEPT !.token = TOKEN_CONTROL_TO_SEGA, !.returning = FALSE]
      ELSE kk)

\* ... and in a later step of the fetch thread when it completes there.
TokenStore == [FetchContext("none", NULL, 0, 0, "none", "NULL") EXCEPT !.pc = "token"]

FetchFinish(k) ==
  Once(k, LAMBDA kk :
    IF kk.returning
      THEN [kk EXCEPT !.fetches = Append(@, TokenStore), !.returning = FALSE]
      ELSE kk)

\* ctx->done_callback(ok, ctx->user_ctx) (fetch.c:106); a buffer fetch goes
\* through write_to_buffer_done to its final callback.
DoneCallback(k, ctx, ok) ==
  Once(k, LAMBDA kk :
    CASE ctx.done = "fetch_chunk_done" -> fetch_chunk_done(kk, ok, ctx.user_ctx)
      [] ctx.done = "get_video_list_0" -> get_video_list_0(kk, ok)
      [] ctx.done = "start_video_0" -> start_video_0(kk, ok)
      [] ctx.done = "start_video_1" -> start_video_1(kk, ok)
      [] ctx.done = "start_video_2" -> start_video_2(kk, ok))

RemoveAt(s, i) == SubSeq(s, 1, i - 1) \o SubSeq(s, i + 1, Len(s))

(***************************************************************************)
(* The console.                                                            *)
(***************************************************************************)
\* The <<command, arg>> pairs the console sends.
ConsoleCommands ==
  { <<CMD_ECHO, 85>>, <<CMD_LIST_VIDEOS, 0>>, <<CMD_START_VIDEO, 0>>,
    <<CMD_START_VIDEO, 127>>, <<CMD_START_VIDEO, 128>>, <<CMD_STOP_VIDEO, 0>>, <<CMD_FLIP_REGION, 0>>,
    <<CMD_GET_ERROR, 0>>, <<255, 0>> }

\* The fills the uninitialised malloc'ed SRAM buffer may hold.
SramFill == {238}

\* The lengths of the next fragment of a transfer with `left` bytes to go:
\* a body arrives whole, or as a first fragment of up to MaxFrag bytes and
\* then the rest.
FragSizes(ctx, left) ==
  IF ctx.sink = "sram" /\ ctx.sent = 0
    THEN {n \in 1..left : n <= MaxFrag \/ n = left}
    ELSE {n \in 1..left : n = left}

(***************************************************************************)
(* Initial state: after kinetoscope_init (kinetoscope.c:135-162).          *)
(***************************************************************************)
EmuInit ==
  /\ sram \in {[a \in 0..(SRAM_SIZE - 1) |-> f] : f \in SramFill}
  /\ sram_offset = 0
  /\ command = 0
  /\ arg = 0
  /\ token = TOKEN_CONTROL_TO_SEGA
  /\ error = 0
  /\ error_str = NULL
  /\ ready_time = "never"
  /\ command_busy = FALSE
  /\ video_url = NULL
  /\ chunk_size = 0
  /\ chunk_num = 0
  /\ chunks_left = 0
  /\ video_url_start_byte = 0
  /\ compressed = FALSE
  /\ header = [i \in 1..HEADER_SIZE |-> 0]
  /\ index = [i \in 1..INDEX_SIZE |-> 0]
  /\ fetch_busy = FALSE
  /\ rle_pending_repeats = 0
  /\ rle_pending_literals = 0
  /\ fetches = << >>
  /\ emu_pc = "idle"
  /\ crashed = FALSE
  /\ started = << >>
  /\ filled = -1
  /\ handoffs = 0
  /\ executions = 0
  /\ reruns = 0
  /\ failures = 0

Init ==
  /\ EmuInit
  /\ FwInit
  /\ PlayerInit
  /\ served \in VideoKinds
  /\ stream = << >>
  /\ fed = 0
  /\ written = << >>

(***************************************************************************)
(* Actions.                                                                *)
(***************************************************************************)
\* The player's sendCommand (segavideo_menu.c:243-251): the token is read
\* as console-owned, then the command, the argument and the token port are
\* written.
SendCommandUpTo(menu, limit) ==
  /\ emu_pc = "idle"
  /\ player_pc = "idle"
  /\ ~crashed
  /\ token = TOKEN_CONTROL_TO_SEGA
  /\ handoffs < limit
  /\ \E c \in menu :
       Commit(kinetoscope_write_16(
                kinetoscope_write_16(
                  kinetoscope_write_16(K, KINETOSCOPE_PORT_COMMAND, c[1]),
                  KINETOSCOPE_PORT_ARG, c[2]),
                KINETOSCOPE_PORT_TOKEN, 1))
  /\ handoffs' = handoffs + 1
  /\ executions' = 0
  /\ UNCHANGED <<fw_vars, player_vars, served, reruns, failures, stream, fed, written>>

SendCommand(menu) == SendCommandUpTo(menu, MaxCommands)

ConsoleSendCommand == SendCommand(ConsoleCommands)

\* The console reads the token or the error port and the read runs the
\* command (a read that runs nothing changes nothing).
ConsoleRead ==
  /\ emu_pc = "idle"
  /\ player_pc = "idle"
  /\ ~crashed
  /\ ReadExecutes(K)
  /\ executions > 0 => reruns + failures < MaxIncidents
  /\ command \in {CMD_LIST_VIDEOS, CMD_START_VIDEO, CMD_FLIP_REGION}
       => Len(fetches) < MaxFetches
  /\ \E z \in NullReads :
       Commit(EmuFinish(kinetoscope_read_16([K EXCEPT !.at_null = z],
                                            KINETOSCOPE_PORT_TOKEN)))
  /\ executions' = executions + 1
  /\ reruns' = IF executions > 0 THEN reruns + 1 ELSE reruns
  /\ UNCHANGED <<fw_vars, player_vars, served, handoffs, failures, stream, fed, written>>

\* The emulator thread, inside flip_region, calls fetch_chunk and returns
\* through complete_command (kinetoscope.c:518, 581).
EmuFetchChunk ==
  /\ emu_pc = "fetch_chunk"
  /\ ~crashed
  /\ Commit(EmuFinish(complete_command(
              fetch_chunk([K EXCEPT !.emu_pc = "idle"], "NULL"))))
  /\ UNCHANGED <<fw_vars, player_vars, served, handoffs, executions, reruns, failures, stream, fed, written>>

\* The emulator thread, after the reset_sram of CMD_ECHO, writes the value
\* and returns through complete_command (kinetoscope.c:547, 581).
EmuEchoWrite ==
  /\ emu_pc = "echo"
  /\ ~crashed
  /\ Commit(EmuFinish(echo_write(K)))
  /\ UNCHANGED <<fw_vars, player_vars, served, handoffs, executions, reruns, failures, stream, fed, written>>

\* The values the console writes to the error port.
ErrorPortValues == {0, 1, 65535}

\* The console writes the error port.
ConsoleClearError ==
  /\ emu_pc = "idle"
  /\ player_pc = "idle"
  /\ ~crashed
  /\ error # 0
  /\ \E value \in ErrorPortValues :
       Commit(kinetoscope_write_16(K, KINETOSCOPE_PORT_ERROR, value))
  /\ UNCHANGED <<fw_vars, player_vars, served, handoffs, executions, reruns, failures, stream, fed, written>>

\* The simulated processing delay elapses (ms_now() reaches ready_time).
ClockTick ==
  /\ ~crashed
  /\ ready_time = "pending"
  /\ ready_time' = "reached"
  /\ started' = << >>
  /\ UNCHANGED <<sram, sram_offset, command, arg, token, error, error_str,
                 command_busy, video_url, chunk_size, chunk_num, chunks_left,
                 video_url_start_byte, compressed, header, index, fetch_busy,
                 rle_pending_repeats, rle_pending_literals, fetches, emu_pc,
                 crashed, filled, served, handoffs, executions, reruns,
                 failures, stream, fed, written, fw_vars,
                 player_vars>>

\* A fetch thread hands the next fragment of the body to its write callback.
FetchDeliver ==
  /\ ~crashed
  /\ \E i \in 1..Len(fetches) :
       LET ctx == fetches[i]
           body == FetchBody(served, ctx.url, ctx.first_byte, ctx.size)
       IN  /\ ctx.pc = "transfer"
           /\ \E n \in FragSizes(ctx, Len(body) - ctx.sent) :
                LET data == SubSeq(body, ctx.sent + 1, ctx.sent + n)
                    k1 == IF ctx.sink = "sram"
                            THEN http_data_to_sram(K, data)
                            ELSE http_data_to_buffer(K, ctx, data)
                IN  Commit([k1 EXCEPT !.fetches[i].sent = @ + n])
  /\ UNCHANGED <<fw_vars, player_vars, served, handoffs, executions, reruns, failures, stream, fed, written>>

\* A transfer ends and the fetch thread runs the done callback: with ok
\* when the whole body has arrived under status 200 or 206, without when
\* the transfer broke off or the server answered with another status.
FetchDone ==
  /\ ~crashed
  /\ \E i \in 1..Len(fetches), ok \in BOOLEAN :
       LET ctx == fetches[i]
           body == FetchBody(served, ctx.url, ctx.first_byte, ctx.size)
       IN  /\ ctx.pc = "transfer"
           /\ ok => (body # << >> /\ ctx.sent = Len(body))
           /\ ~ok => (body = << >> \/ reruns + failures < MaxIncidents)
           /\ Commit(FetchFinish(
                DoneCallback([K EXCEPT !.fetches = RemoveAt(@, i)], ctx, ok)))
           /\ failures' = IF ok \/ body = << >> THEN failures
                                               ELSE failures + 1
  /\ UNCHANGED <<fw_vars, player_vars, served, handoffs, executions, reruns, stream, fed, written>>

\* The emulator thread, after the reset_sram of sram_march_test, writes the
\* pass and returns through complete_command (sram-common.h:26-102,
\* kinetoscope.c:581).
EmuMarchWrite ==
  /\ emu_pc = "march"
  /\ ~crashed
  /\ Commit(EmuFinish(complete_command(
              march_write([K EXCEPT !.emu_pc = "idle"], arg))))
  /\ UNCHANGED <<fw_vars, player_vars, served, handoffs, executions, reruns, failures, stream, fed, written>>

\* The emulator thread runs LIST_VIDEOS while a fetch thread is inside
\* rle_to_sram: the thread has read kinetoscope.compressed as true and the
\* pending counters, and its writes to the SRAM and its stores to the
\* counters land after the reset_sram and the rle_reset of the emulator
\* thread (kinetoscope.c:526, 270) and before the catalog fetch is started
\* (fetch.c:177-178).  Nothing orders the two threads.
EmuListDuringDecode ==
  /\ emu_pc = "idle"
  /\ ~crashed
  /\ ReadExecutes(K)
  /\ executions = 0
  /\ command = CMD_LIST_VIDEOS
  /\ compressed
  /\ Len(fetches) < MaxFetches
  /\ \E i \in 1..Len(fetches) :
       LET ctx == fetches[i]
           body == FetchBody(served, ctx.url, ctx.first_byte, ctx.size)
       IN  /\ ctx.pc = "transfer"
           /\ ctx.sink = "sram"
           /\ \E n \in FragSizes(ctx, Len(body) - ctx.sent) :
                LET data == SubSeq(body, ctx.sent + 1, ctx.sent + n)
                    r == rle_decode(rle_pending_repeats, rle_pending_literals,
                                    data)
                    k1 == EmuFinish(
                            kinetoscope_read_16(K, KINETOSCOPE_PORT_TOKEN))
                IN  Commit([write_all(k1, r.writes) EXCEPT
                              !.rle_pending_repeats = r.rep,
                              !.rle_pending_literals = r.lit,
                              !.fetches[i].sent = @ + n])
  /\ executions' = executions + 1
  /\ UNCHANGED <<fw_vars, player_vars, served, handoffs, reruns, failures, stream, fed, written>>

\* The second store of a complete_command that ran on a fetch thread.
FetchReturnToken ==
  /\ ~crashed
  /\ \E i \in 1..Len(fetches) :
       /\ fetches[i].pc = "token"
       /\ Commit([K EXCEPT !.token = TOKEN_CONTROL_TO_SEGA,
                           !.fetches = RemoveAt(@, i)])
  /\ UNCHANGED <<fw_vars, player_vars, served, handoffs, executions, reruns, failures, stream, fed, written>>

Next ==
  \/ ConsoleSendCommand
  \/ ConsoleRead
  \/ EmuFetchChunk
  \/ EmuEchoWrite
  \/ EmuListDuringDecode
  \/ ConsoleClearError
  \/ ClockTick
  \/ FetchDeliver
  \/ FetchDone
  \/ FetchReturnToken

Spec == Init /\ [][Next]_vars

(***************************************************************************)
(* The firmware's HTTP client (src/firmware/http.cc).  The Client is the   *)
(* network library's TCP socket: `open` while the connection stands,       *)
(* `arrived` the bytes a read can take now, `pending` the bytes the server *)
(* has still to send on this connection.                                   *)
(***************************************************************************)
DEFAULT_PORT == 80
MIN_RESPONSE_LENGTH == 12
CONTENT_LENGTH_HEADER_LENGTH == 16
HTTP_RESPONSE_HEADER_LENGTH == 9

\* "Content-Length: "
CONTENT_LENGTH_HEADER ==
  <<67, 111, 110, 116, 101, 110, 116, 45, 76, 101, 110, 103, 116, 104,
    58, 32>>
\* "HTTP/1.1 "
HTTP_RESPONSE_HEADER ==
  <<72, 84, 84, 80, 47, 49, 46, 49, 32>>
CR == 13
LF == 10

\* client->connected(): the connection stands or unread data is left.
connected(c) == c.open \/ c.arrived # << >>

\* client->stop().
stop(c) == [c EXCEPT !.open = FALSE, !.arrived = << >>, !.pending = << >>]

\* The C string a buffer holds: its bytes up to the first '\0'.
CString(buf) ==
  IF \E i \in 1..Len(buf) : buf[i] = 0
    THEN SubSeq(buf, 1, (CHOOSE i \in 1..Len(buf) :
                           buf[i] = 0 /\ \A j \in 1..(i - 1) : buf[j] # 0) - 1)
    ELSE buf

\* strstr(haystack, needle) != NULL.
strstr(haystack, needle) ==
  \E i \in 1..(Len(haystack) - Len(needle) + 1) :
    SubSeq(haystack, i, i + Len(needle) - 1) = needle

RECURSIVE Digits(_, _, _)
\* The digits of strtol from position i on, base 10.
Digits(s, i, acc) ==
  IF i > Len(s) \/ s[i] \notin 48..57 THEN acc
  ELSE Digits(s, i + 1, acc * 10 + (s[i] - 48))

\* strtol(s, NULL, 10): white space, an optional sign, then digits.
strtol(s) ==
  LET spaces == {32, 9, 10, 11, 12, 13}
      start == CHOOSE i \in 1..(Len(s) + 1) :
                 /\ i = Len(s) + 1 \/ s[i] \notin spaces
                 /\ \A j \in 1..(i - 1) : s[j] \in spaces
      signed == start <= Len(s) /\ s[start] \in {43, 45}
      value == Digits(s, IF signed THEN start + 1 ELSE start, 0)
  IN  IF signed /\ s[start] = 45 THEN 0 - value ELSE value

\* tolower.
ToLower(c) == IF c \in 65..90 THEN c + 32 ELSE c

\* !strncasecmp(s, CONTENT_LENGTH_HEADER, CONTENT_LENGTH_HEADER_LENGTH).
strncasecmp_equal(s) ==
  /\ Len(s) >= CONTENT_LENGTH_HEADER_LENGTH
  /\ \A i \in 1..CONTENT_LENGTH_HEADER_LENGTH :
       ToLower(s[i]) = ToLower(CONTENT_LENGTH_HEADER[i])

RECURSIVE ScanHeaders(_, _, _, _)
\* The scan of read_response_headers from index i (http.cc:182-219);
\* body_start is the index of the first body byte, -1 for NULL.
ScanHeaders(buf, i, this_header_starts, body_length) ==
  LET num_read == Len(buf)
      at(j) == buf[j + 1]
      newline == at(i) = LF
      length == IF /\ newline
                   /\ this_header_starts > 0
                   /\ strncasecmp_equal(
                        CString(SubSeq(buf, this_header_starts + 1, num_read)))
                  THEN strtol(CString(SubSeq(buf,
                         this_header_starts + CONTENT_LENGTH_HEADER_LENGTH + 1,
                         num_read)))
                  ELSE body_length
  IN  IF i >= num_read - 1
        THEN [body_length |-> body_length, body_start |-> -1,
              body_start_length |-> -1]
      ELSE IF /\ i < num_read - 3
              /\ at(i) = CR /\ at(i + 1) = LF
              /\ at(i + 2) = CR /\ at(i + 3) = LF
        THEN [body_length |-> length, body_start |-> i + 4,
              body_start_length |-> num_read - (i + 4)]
      ELSE IF at(i) = LF /\ at(i + 1) = LF
        THEN [body_length |-> length, body_start |-> i + 2,
              body_start_length |-> num_read - (i + 2)]
      ELSE ScanHeaders(buf, i + 1,
                       IF newline THEN i + 1 ELSE this_header_starts, length)

\* The loop condition's end_of_headers (http.cc:144-145).
end_of_headers(buf) ==
  \/ strstr(CString(buf), <<CR, LF, CR, LF>>)
  \/ strstr(CString(buf), <<LF, LF>>)

\* read_response_headers once its read loop has ended with `buf` read.
read_response_headers(buf) ==
  LET failed == [ok |-> FALSE, status_code |-> -1, body_length |-> -1,
                 body_start |-> -1, body_start_length |-> -1]
      status == strtol(SubSeq(buf, HTTP_RESPONSE_HEADER_LENGTH + 1,
                              HTTP_RESPONSE_HEADER_LENGTH + 3))
      scan == ScanHeaders(buf, 0, -1, -1)
  IN  IF Len(buf) < MIN_RESPONSE_LENGTH THEN failed
      ELSE IF ~end_of_headers(buf) THEN failed
      ELSE IF status <= 0 \/ status < 100
        THEN [failed EXCEPT !.status_code = status]
      ELSE IF scan.body_start = -1 THEN [failed EXCEPT !.status_code = status]
      ELSE IF scan.body_length < 0 THEN [failed EXCEPT !.status_code = status]
      ELSE [ok |-> TRUE, status_code |-> status,
            body_length |-> scan.body_length, body_start |-> scan.body_start,
            body_start_length |-> scan.body_start_length]

\* "Request failed! Range not supported?"
MSG_RANGE ==
  <<82, 101, 113, 117, 101, 115, 116, 32, 102, 97, 105, 108, 101, 100,
    33, 32, 82, 97, 110, 103, 101, 32, 110, 111, 116, 32, 115, 117, 112,
    112, 111, 114, 116, 101, 100, 63>>
\* "Request failed! Redirect not supported!"
MSG_REDIRECT ==
  <<82, 101, 113, 117, 101, 115, 116, 32, 102, 97, 105, 108, 101, 100,
    33, 32, 82, 101, 100, 105, 114, 101, 99, 116, 32, 110, 111, 116, 32,
    115, 117, 112, 112, 111, 114, 116, 101, 100, 33>>
\* "Request failed! HTTP status "
MSG_STATUS_PREFIX ==
  <<82, 101, 113, 117, 101, 115, 116, 32, 102, 97, 105, 108, 101, 100,
    33, 32, 72, 84, 84, 80, 32, 115, 116, 97, 116, 117, 115, 32>>

\* A check that lets every status through.
check_status_code_Any(code) == << >>

\* check_status_code: the message it reports, none when it returns true.
check_status_code(code) ==
  IF code = 200 THEN MSG_RANGE
  ELSE IF code \div 100 = 3 THEN MSG_REDIRECT
  ELSE IF code # 206 THEN MSG_STATUS_PREFIX \o FormatDec(code)
  ELSE << >>

\* "Failed to read HTTP headers!"
MSG_HTTP_HEADERS ==
  <<70, 97, 105, 108, 101, 100, 32, 116, 111, 32, 114, 101, 97, 100, 32,
    72, 84, 84, 80, 32, 104, 101, 97, 100, 101, 114, 115, 33>>
\* "No internet connection!"
MSG_NO_INTERNET ==
  <<78, 111, 32, 105, 110, 116, 101, 114, 110, 101, 116, 32, 99, 111,
    110, 110, 101, 99, 116, 105, 111, 110, 33>>
\* "Unexpected zero-length response!"
MSG_ZERO_LENGTH ==
  <<85, 110, 101, 120, 112, 101, 99, 116, 101, 100, 32, 122, 101, 114,
    111, 45, 108, 101, 110, 103, 116, 104, 32, 114, 101, 115, 112, 111,
    110, 115, 101, 33>>

\* The variables of the emulator and of the smaller specifications.
other_vars ==
  <<ctx_vars, served, handoffs, executions, reruns, failures, stream, fed,
    written, player_vars>>

\* What a server may answer to a request of `size` bytes: a status line, a
\* Content-Length header or none (-1), one more header or none, the blank
\* line and `sent` bytes of body; or the start of a status line only.
ResponseText(status, eol, body_length, more, sent) ==
  HTTP_RESPONSE_HEADER \o status \o eol
    \o (IF body_length >= 0
          THEN CONTENT_LENGTH_HEADER \o FormatDec(body_length) \o eol
          ELSE << >>)
    \o (IF more THEN <<65, 58, 32, 98>> \o eol ELSE << >>)
    \o eol
    \o [i \in 1..sent |-> 16 + i]

\* "206", "200", "301", "399", "404", "100", "099"
StatusTexts ==
  { <<50, 48, 54>>, <<50, 48, 48>>, <<51, 48, 49>>, <<51, 57, 57>>,
    <<52, 48, 52>>, <<49, 48, 48>>, <<48, 57, 57>> }

Responses(size) ==
  { ResponseText(st, eol, body_length, more, sent) :
      st \in StatusTexts, eol \in {<<CR, LF>>, <<LF>>},
      body_length \in {-1, size}, more \in BOOLEAN,
      sent \in {size - 1, size} }
    \cup {SubSeq(HTTP_RESPONSE_HEADER, 1, 5)}

\* The byte counts the callers ask for.
HttpSizes == {MaxHttpSize}

\* The server's name and the port the callers give (0: the default).
HttpServer == <<115>>

\* The firmware's report_error (error.cc:23-34): vsnprintf into
\* error_buffer, then flag_error (registers.cc:58-60).
firmware_report_error(message) ==
  /\ error_buffer' = message
  /\ err_flagged' = TRUE

\* http_init.
http_init ==
  /\ http_pc = "idle"
  /\ ~client.set
  /\ client' = [client EXCEPT !.set = TRUE]
  /\ current_server' = << >>
  /\ UNCHANGED <<current_port, error_buffer, err_flagged, http_pc, request,
                 response_buffer, bytes_left, status_code, sink_calls, result,
                 opened, http_calls>>
  /\ UNCHANGED sram_hw
  /\ UNCHANGED other_vars

\* A return that never runs close_connection.
HttpReturn_NoClose(c, ok, message, close) ==
  /\ client' = c
  /\ current_server' = current_server
  /\ IF message = << >>
       THEN UNCHANGED <<error_buffer, err_flagged>>
       ELSE firmware_report_error(message)
  /\ result' = IF ok THEN "true" ELSE "false"
  /\ http_pc' = "idle"

\* http_fetch returns `ok` with `message` reported (none: << >>); on a
\* failure after the request close_connection has run first.
HttpReturn(c, ok, message, close) ==
  /\ client' = IF close THEN stop(c) ELSE c
  /\ current_server' = IF close THEN << >> ELSE current_server
  /\ IF message = << >>
       THEN UNCHANGED <<error_buffer, err_flagged>>
       ELSE firmware_report_error(message)
  /\ result' = IF ok THEN "true" ELSE "false"
  /\ http_pc' = "idle"

\* http_fetch up to write_request (http.cc:258-270): the connection is
\* reused or made anew, the request goes out and the server's answer is on
\* its way.
HttpFetchUpTo(limit) ==
  /\ http_pc = "idle"
  /\ http_calls < limit
  /\ http_calls' = http_calls + 1
  /\ sink_calls' = << >>
  /\ status_code' = -1
  /\ response_buffer' = << >>
  /\ bytes_left' = 0
  /\ \E size \in HttpSizes :
       /\ request' = [server |-> HttpServer, port |-> DEFAULT_PORT,
                      size |-> size]
       /\ IF ~client.set
            THEN /\ HttpReturn(client, FALSE, MSG_NO_INTERNET, FALSE)
                 /\ opened' = FALSE
                 /\ UNCHANGED current_port
            ELSE LET need_new_connection ==
                       \/ HttpServer # current_server
                       \/ DEFAULT_PORT # current_port
                       \/ ~connected(client)
                 IN  /\ opened' = need_new_connection
                     /\ current_server' = HttpServer
                     /\ current_port' = DEFAULT_PORT
                     /\ \E accepted \in BOOLEAN, answer \in Responses(size) :
                          LET c == IF need_new_connection
                                     THEN [stop(client) EXCEPT !.open = accepted]
                                     ELSE client
                          IN  client' =
                                IF c.open
                                  THEN [c EXCEPT !.pending = @ \o answer]
                                  ELSE c
                     /\ http_pc' = "headers"
                     /\ result' = "none"
                     /\ UNCHANGED <<error_buffer, err_flagged>>
  /\ UNCHANGED sram_hw
  /\ UNCHANGED other_vars

HttpFetch == HttpFetchUpTo(MaxHttpCalls)

\* One turn of the read loop of read_response_headers (http.cc:131-146).
HttpReadHeaders ==
  /\ http_pc = "headers"
  /\ connected(client) /\ ~end_of_headers(response_buffer)
  /\ response_buffer' = response_buffer \o client.arrived
  /\ client' = [client EXCEPT !.arrived = << >>]
  /\ UNCHANGED <<current_server, current_port, error_buffer, err_flagged, http_pc, request,
                 bytes_left, status_code, sink_calls, result, opened,
                 http_calls>>
  /\ UNCHANGED sram_hw
  /\ UNCHANGED other_vars

\* The sink is called with n bytes and answers `ok`; http_fetch goes on,
\* returns true when nothing is left, or closes and returns false.
HttpCallback(n, left, ok) ==
  /\ sink_calls' = Append(sink_calls, [bytes |-> n, ok |-> ok])
  /\ bytes_left' = left - n
  /\ IF ~ok THEN HttpReturn(client, FALSE, << >>, TRUE)
     ELSE IF left - n = 0 THEN HttpReturn(client, TRUE, << >>, FALSE)
     ELSE /\ http_pc' = "body"
          /\ UNCHANGED <<client, current_server, error_buffer, err_flagged, result>>

\* The read loop has ended: the headers are parsed, the status checked and
\* the body bytes read with the headers given to the sink (http.cc:148-318).
HttpHeadersRead ==
  /\ http_pc = "headers"
  /\ ~(connected(client) /\ ~end_of_headers(response_buffer))
  /\ \E header_data \in {read_response_headers(response_buffer)} :
     LET message == check_status_code(header_data.status_code)
         size == Min(request.size, header_data.body_length)
     IN  /\ status_code' = IF header_data.ok THEN header_data.status_code ELSE -1
         /\ IF ~header_data.ok
              THEN /\ HttpReturn(client, FALSE, MSG_HTTP_HEADERS, TRUE)
                   /\ UNCHANGED <<sink_calls, bytes_left>>
            ELSE IF message # << >>
              THEN /\ HttpReturn(client, FALSE, message, TRUE)
                   /\ UNCHANGED <<sink_calls, bytes_left>>
            ELSE IF header_data.body_length < 0
              THEN /\ HttpReturn(client, FALSE, MSG_ZERO_LENGTH, TRUE)
                   /\ UNCHANGED <<sink_calls, bytes_left>>
            ELSE IF header_data.body_start_length # 0
              THEN \E ok \in BOOLEAN :
                     HttpCallback(header_data.body_start_length, size, ok)
            ELSE IF size = 0
              THEN /\ HttpReturn(client, TRUE, << >>, FALSE)
                   /\ bytes_left' = 0
                   /\ UNCHANGED sink_calls
            ELSE /\ http_pc' = "body"
                 /\ bytes_left' = size
                 /\ UNCHANGED <<client, current_server, error_buffer, err_flagged, result,
                                sink_calls>>
  /\ UNCHANGED <<current_port, request, response_buffer, opened, http_calls>>
  /\ UNCHANGED sram_hw
  /\ UNCHANGED other_vars

\* One turn of the body loop that reads something (http.cc:322-345); a turn
\* that reads nothing changes nothing.  A negative bytes_left asks for a
\* negative count: the read may give nothing or anything that has arrived.
HttpReadBody ==
  /\ http_pc = "body"
  /\ bytes_left # 0
  /\ \E bytes_read \in 1..Len(client.arrived) :
       /\ bytes_left > 0 => bytes_read = Min(bytes_left, Len(client.arrived))
       /\ \E ok \in BOOLEAN :
            LET c == [client EXCEPT
                        !.arrived = SubSeq(@, bytes_read + 1, Len(@))]
            IN  /\ sink_calls' = Append(sink_calls,
                                        [bytes |-> bytes_read, ok |-> ok])
                /\ bytes_left' = bytes_left - bytes_read
                /\ IF ~ok THEN HttpReturn(c, FALSE, << >>, TRUE)
                   ELSE IF bytes_left - bytes_read = 0
                     THEN HttpReturn(c, TRUE, << >>, FALSE)
                   ELSE /\ client' = c
                        /\ UNCHANGED <<current_server, error_buffer, err_flagged, result,
                                       http_pc>>
  /\ UNCHANGED <<current_port, request, response_buffer, status_code, opened,
                 http_calls>>
  /\ UNCHANGED sram_hw
  /\ UNCHANGED other_vars

\* The network brings the next bytes of the answer: all of them, all but
\* the last, or fewer than a status line.
NetDeliver ==
  /\ client.open
  /\ client.pending # << >>
  /\ \E n \in {Len(client.pending), Len(client.pending) - 1,
               MIN_RESPONSE_LENGTH - 1} :
       /\ n \in 1..Len(client.pending)
       /\ client' = [client EXCEPT
                       !.arrived = @ \o SubSeq(client.pending, 1, n),
                       !.pending = SubSeq(@, n + 1, Len(@))]
  /\ UNCHANGED <<current_server, current_port, error_buffer, err_flagged, http_pc, request,
                 response_buffer, bytes_left, status_code, sink_calls, result,
                 opened, http_calls>>
  /\ UNCHANGED sram_hw
  /\ UNCHANGED other_vars

\* The server or the network closes the connection.
PeerClose ==
  /\ client.open
  /\ client' = [client EXCEPT !.open = FALSE, !.pending = << >>]
  /\ UNCHANGED <<current_server, current_port, error_buffer, err_flagged, http_pc, request,
                 response_buffer, bytes_left, status_code, sink_calls, result,
                 opened, http_calls>>
  /\ UNCHANGED sram_hw
  /\ UNCHANGED other_vars

HttpInit ==
  /\ EmuInit
  /\ FwInit
  /\ PlayerInit
  /\ served = "raw3"
  /\ stream = << >>
  /\ fed = 0
  /\ written = << >>

HttpNext ==
  \/ http_init
  \/ HttpFetch
  \/ HttpReadHeaders
  \/ HttpHeadersRead
  \/ HttpReadBody
  \/ NetDeliver
  \/ PeerClose

SpecHttp == HttpInit /\ [][HttpNext]_vars

\* One http_fetch, with a firmware that keeps running and a network that
\* delivers what the server has sent; nothing obliges the server to close.
HttpFetchOnce == HttpFetchUpTo(MaxFairCalls)

HttpFairNext ==
  \/ http_init
  \/ HttpFetchOnce
  \/ HttpReadHeaders
  \/ HttpHeadersRead
  \/ HttpReadBody
  \/ NetDeliver
  \/ PeerClose

\* The steps of a running http_fetch: it is one thread, in one place.
HttpStep == HttpReadHeaders \/ HttpHeadersRead \/ HttpReadBody

FairHttp ==
  /\ HttpInit
  /\ [][HttpFairNext]_vars
  /\ WF_vars(HttpStep)
  /\ WF_vars(NetDeliver)

(***************************************************************************)
(* Commands written as 16-bit words: the console's port writes are 16 bits *)
(* wide (kinetoscope_write_16), the command register's low byte names the  *)
(* command.                                                                *)
(***************************************************************************)
\* The synchronous commands, each with a clear and with a set high byte.
WideCommands ==
  { <<high * 256 + c, 85>> :
      high \in {0, 1}, c \in {CMD_ECHO, CMD_STOP_VIDEO, CMD_GET_ERROR, 255} }

WideSendCommand == SendCommand(WideCommands)

WideInit ==
  /\ EmuInit
  /\ FwInit
  /\ PlayerInit
  /\ served = "raw3"
  /\ stream = << >>
  /\ fed = 0
  /\ written = << >>

WideNext ==
  \/ WideSendCommand
  \/ ConsoleRead
  \/ ConsoleClearError
  \/ ClockTick

SpecWide == WideInit /\ [][WideNext]_vars

(***************************************************************************)
(* A session that follows another: START_VIDEO, FLIP_REGION, STOP_VIDEO    *)
(* and START_VIDEO again, with the fetch of the FLIP_REGION free to end at *)
(* any time.                                                               *)
(***************************************************************************)
MaxStaleCommands == 4

StaleCommands ==
  CASE handoffs \in {0, 3} -> {<<CMD_START_VIDEO, 0>>}
    [] handoffs = 1 -> {<<CMD_FLIP_REGION, 0>>}
    [] OTHER -> {<<CMD_STOP_VIDEO, 0>>}

StaleSendCommand == SendCommandUpTo(StaleCommands, MaxStaleCommands)

StaleInit ==
  /\ EmuInit
  /\ FwInit
  /\ PlayerInit
  /\ served \in {"raw3", "rle3"}
  /\ stream = << >>
  /\ fed = 0
  /\ written = << >>

StaleNext ==
  \/ StaleSendCommand
  \/ ConsoleRead
  \/ EmuFetchChunk
  \/ ClockTick
  \/ FetchDeliver
  \/ FetchDone
  \/ FetchReturnToken

SpecStale == StaleInit /\ [][StaleNext]_vars

(***************************************************************************)
(* The firmware's SRAM writer and error report (src/firmware/sram.cc,      *)
(* src/firmware/error.cc).  `stream` is the bytes handed to sram_write     *)
(* since the last sram_start_bank, `written` the messages reported since   *)
(* the console last cleared the error flag.                                *)
(***************************************************************************)
\* The writer's state as one value.
SramHw ==
  [leftover |-> leftover, active_bank_pin |-> active_bank_pin,
   sram_words |-> sram_words]

MAKE_WORD(high, low) == (high * 256 + low) % 65536

\* sram_write_word: the word is clocked in and the write address moves on.
sram_write_word(h, word_data) ==
  [h EXCEPT !.sram_words = Append(@, word_data)]

RECURSIVE SramWriteLoop(_, _, _)
\* for (; i < num_bytes - 1; i += 2) and the test for a last single byte.
SramWriteLoop(h, data, i) ==
  IF i < Len(data) - 1
    THEN SramWriteLoop(
           sram_write_word(h, MAKE_WORD(data[i + 1], data[i + 2])),
           data, i + 2)
    ELSE IF i = Len(data) - 1
      THEN [h EXCEPT !.leftover = data[i + 1]]
      ELSE h

\* sram_write that forgets a byte left over by the call before.
sram_write_DropsLeftover(h, data) ==
  IF Len(data) = 0 THEN h
  ELSE SramWriteLoop([h EXCEPT !.leftover = -1], data, 0)

sram_write(h, data) ==
  IF Len(data) = 0 THEN h
  ELSE IF h.leftover >= 0
    THEN SramWriteLoop(
           [sram_write_word(h, MAKE_WORD(h.leftover, data[1]))
              EXCEPT !.leftover = -1],
           data, 1)
    ELSE SramWriteLoop(h, data, 0)

sram_flush_and_release_bank(h) ==
  LET h1 == IF h.active_bank_pin >= 0
              THEN [(IF h.leftover >= 0
                       THEN sram_write_word(h, MAKE_WORD(h.leftover, 0))
                       ELSE h)
                      EXCEPT !.active_bank_pin = -1]
              ELSE h
  IN  [h1 EXCEPT !.leftover = -1]

\* The bank's write-enable pin is set and the write address is reset.
sram_start_bank(h, bank) ==
  [sram_flush_and_release_bank(h) EXCEPT
     !.active_bank_pin = IF bank # 0 THEN 2 ELSE 1,
     !.sram_words = << >>]

\* write_error_to_sram (error.cc:36-40); error_buffer holds the message and
\* its terminator.
firmware_write_error_to_sram(h) ==
  sram_flush_and_release_bank(
    sram_write(sram_start_bank(h, 0), error_buffer \o <<0>>))

SramHwCommit(h) ==
  /\ leftover' = h.leftover
  /\ active_bank_pin' = h.active_bank_pin
  /\ sram_words' = h.sram_words

\* Bytes written in one bank session, and the buffers they come in.
MaxFwBytes == 4
FwBytes == {17, 34, 255}
FwBuffers == UNION {[1..n -> FwBytes] : n \in 0..2}

\* Messages reported before the console clears the flag.
MaxReports == 2
FwMessages == {MSG_NO_INTERNET, MSG_HTTP_HEADERS}

fw_rest ==
  <<client, current_server, current_port, http_pc, request, response_buffer,
    bytes_left, status_code, sink_calls, result, opened, http_calls>>

FwStartBank ==
  /\ \E bank \in {0, 1} : SramHwCommit(sram_start_bank(SramHw, bank))
  /\ stream' = << >>
  /\ UNCHANGED <<ctx_vars, fw_rest, error_buffer, err_flagged, player_vars,
                 served, handoffs, executions, reruns, failures, fed, written>>

FwWrite ==
  /\ active_bank_pin >= 0
  /\ \E data \in FwBuffers :
       /\ Len(stream) + Len(data) <= MaxFwBytes
       /\ SramHwCommit(sram_write(SramHw, data))
       /\ stream' = stream \o data
  /\ UNCHANGED <<ctx_vars, fw_rest, error_buffer, err_flagged, player_vars,
                 served, handoffs, executions, reruns, failures, fed, written>>

FwFlush ==
  /\ active_bank_pin >= 0
  /\ SramHwCommit(sram_flush_and_release_bank(SramHw))
  /\ UNCHANGED <<ctx_vars, fw_rest, error_buffer, err_flagged, player_vars,
                 served, handoffs, executions, reruns, failures, stream, fed,
                 written>>

\* Some operation of the firmware fails and reports it.
FwReportError ==
  /\ active_bank_pin = -1
  /\ Len(written) < MaxReports
  /\ \E message \in FwMessages :
       /\ firmware_report_error(message)
       /\ written' = Append(written, message)
  /\ UNCHANGED <<ctx_vars, fw_rest, sram_hw, player_vars, served, handoffs,
                 executions, reruns, failures, stream, fed>>

\* The console's write to the error port resets the latch.
FwConsoleClearError ==
  /\ err_flagged
  /\ err_flagged' = FALSE
  /\ written' = << >>
  /\ UNCHANGED <<ctx_vars, fw_rest, error_buffer, sram_hw, player_vars, served,
                 handoffs, executions, reruns, failures, stream, fed>>

\* CMD_GET_ERROR: write_error_to_sram.
FwGetError ==
  /\ active_bank_pin = -1
  /\ SramHwCommit(firmware_write_error_to_sram(SramHw))
  /\ stream' = error_buffer \o <<0>>
  /\ UNCHANGED <<ctx_vars, fw_rest, error_buffer, err_flagged, player_vars,
                 served, handoffs, executions, reruns, failures, fed, written>>

FirmwareInit ==
  /\ EmuInit
  /\ FwInit
  /\ PlayerInit
  /\ served = "raw3"
  /\ stream = << >>
  /\ fed = 0
  /\ written = << >>

FirmwareNext ==
  \/ FwStartBank
  \/ FwWrite
  \/ FwFlush
  \/ FwReportError
  \/ FwConsoleClearError
  \/ FwGetError

SpecFirmware == FirmwareInit /\ [][FirmwareNext]_vars

(***************************************************************************)
(* The player's view of the two banks while it plays a stream              *)
(* (segavideo_player.c:129-187, 400-435, 466-512; segavideo_menu.c:74-85,  *)
(* 523-560).  Addresses are the console's, scaled with the bank: the SRAM  *)
(* is mapped at two bank sizes.                                            *)
(***************************************************************************)
KINETOSCOPE_VIDEO_DATA == 2 * SRAM_BANK_SIZE_BYTES
KINETOSCOPE_VIDEO_REGION_SIZE == SRAM_BANK_SIZE_BYTES
KINETOSCOPE_VIDEO_REGION_MASK == 3 * SRAM_BANK_SIZE_BYTES

RECURSIVE BitAnd(_, _)
BitAnd(a, b) ==
  IF a = 0 \/ b = 0 THEN 0
  ELSE (a % 2) * (b % 2) + 2 * BitAnd(a \div 2, b \div 2)

RECURSIVE BitXor(_, _)
BitXor(a, b) ==
  IF a = 0 THEN b
  ELSE IF b = 0 THEN a
  ELSE ((a + b) % 2) + 2 * BitXor(a \div 2, b \div 2)

MASK(pointer, mask) == BitAnd(pointer, mask)

NEXT_POINTER(pointer, mask, size) ==
  BitXor(MASK(pointer, mask), size)

\* parseChunk: the chunk header's counts and paddings add up to the chunk,
\* which is chunkSize bytes long in a raw video.
parseChunk(chunkStart, length) ==
  [start |-> chunkStart, end |-> chunkStart + length]

prepNextChunk(current, num, total, regionMask, regionSize, length) ==
  IF num = total - 1
    THEN [start |-> 0, end |-> 0]
    ELSE parseChunk(NEXT_POINTER(current.end, regionMask, regionSize), length)

\* A big-endian uint32_t field read by the console at offset off of the SRAM.
SramBE32(mem, off) ==
  LoadLE([i \in 1..WordBytes |-> mem[Xor1(off + WordBytes - i)]], 0, WordBytes)

PlaceKinds == {"raw3", "half3", "near3", "full3"}

PlaceInit ==
  /\ EmuInit
  /\ FwInit
  /\ PlayerInit
  /\ served \in PlaceKinds
  /\ stream = << >>
  /\ fed = 0
  /\ written = << >>

\* segavideo_menu_select sends START_VIDEO.
PlaceStart ==
  /\ handoffs = 0
  /\ SendCommand({<<CMD_START_VIDEO, 0>>})

\* segavideo_playInternal, once START_VIDEO has returned without an error.
PlayerPlay ==
  /\ emu_pc = "idle"
  /\ ~crashed
  /\ handoffs = 1
  /\ token = TOKEN_CONTROL_TO_SEGA
  /\ error = 0
  /\ fetches = << >>
  /\ totalChunks = 0
  /\ totalChunks' = SramBE32(sram, H_TOTAL_CHUNKS)
  /\ currentChunkNum' = 0
  /\ currentChunk' = parseChunk(KINETOSCOPE_VIDEO_DATA + HEADER_SIZE,
                                VideoDesc(served).chunkSize)
  /\ UNCHANGED <<ctx_vars, fw_vars, player_pc, sending, send_result, served,
                 handoffs, executions, reruns, failures, stream, fed, written>>

\* The end of a chunk's last frame (segavideo_player.c:419-435): the next
\* chunk is located, becomes the current one, and flipCallback sends
\* FLIP_REGION.  The device is one chunk ahead and at rest.
PlayerSwitch ==
  /\ emu_pc = "idle"
  /\ player_pc = "idle"
  /\ ~crashed
  /\ totalChunks # 0
  /\ currentChunkNum < totalChunks
  /\ token = TOKEN_CONTROL_TO_SEGA
  /\ fetches = << >>
  /\ handoffs < MaxCommands
  /\ currentChunk' = prepNextChunk(currentChunk, currentChunkNum, totalChunks,
                                   KINETOSCOPE_VIDEO_REGION_MASK,
                                   KINETOSCOPE_VIDEO_REGION_SIZE,
                                   VideoDesc(served).chunkSize)
  /\ currentChunkNum' = currentChunkNum + 1
  /\ Commit(kinetoscope_write_16(
              kinetoscope_write_16(
                kinetoscope_write_16(K, KINETOSCOPE_PORT_COMMAND,
                                     CMD_FLIP_REGION),
                KINETOSCOPE_PORT_ARG, 0),
              KINETOSCOPE_PORT_TOKEN, 1))
  /\ handoffs' = handoffs + 1
  /\ executions' = 0
  /\ UNCHANGED <<fw_vars, player_pc, sending, send_result, totalChunks, served,
                 reruns, failures, stream, fed, written>>

PlaceNext ==
  \/ PlaceStart
  \/ PlayerPlay
  \/ PlayerSwitch
  \/ ConsoleRead
  \/ EmuFetchChunk
  \/ ClockTick
  \/ FetchDeliver
  \/ FetchDone
  \/ FetchReturnToken

SpecPlace == PlaceInit /\ [][PlaceNext]_vars

(***************************************************************************)
(* read_response_headers on its own: `stream` is what the read loop has    *)
(* put into response_buffer, `written` the answer's make-up followed by    *)
(* the HeaderData the parser filled in.                                    *)
(***************************************************************************)
\* A well-formed answer: the status line, `before` other headers, the
\* Content-Length header, `after` other headers, the blank line and `sent`
\* bytes of the body, every line ended by eol.
HeaderText(a) ==
  HTTP_RESPONSE_HEADER \o a.status \o a.eol
    \o (IF a.before THEN <<66, 58, 32, 99>> \o a.eol ELSE << >>)
    \o CONTENT_LENGTH_HEADER \o FormatDec(a.body_length) \o a.eol
    \o (IF a.after THEN <<65, 58, 32, 98>> \o a.eol ELSE << >>)
    \o a.eol
    \o [i \in 1..a.sent |-> 16 + i]

\* Statuses "200" and "206"; lengths of one and of two digits.
Answers ==
  [status : {<<50, 48, 48>>, <<50, 48, 54>>}, eol : {<<CR, LF>>, <<LF>>},
   before : BOOLEAN, after : BOOLEAN, body_length : {0, 7, 12},
   sent : {0, 1, 2}]

ParseInit ==
  /\ EmuInit
  /\ FwInit
  /\ PlayerInit
  /\ served = "raw3"
  /\ stream = << >>
  /\ fed = 0
  /\ written = << >>

\* The server's answer has been read up to the end of the headers and
\* `sent` bytes beyond.
ParseReceive ==
  /\ written = << >>
  /\ \E a \in Answers :
       /\ stream' = HeaderText(a)
       /\ written' = <<a>>
  /\ UNCHANGED <<ctx_vars, fw_vars, player_vars, served, handoffs, executions,
                 reruns, failures, fed>>

ParseHeaders ==
  /\ Len(written) = 1
  /\ written' = Append(written, read_response_headers(stream))
  /\ UNCHANGED <<ctx_vars, fw_vars, player_vars, served, handoffs, executions,
                 reruns, failures, stream, fed>>

ParseNext ==
  \/ ParseReceive
  \/ ParseHeaders

SpecParse == ParseInit /\ [][ParseNext]_vars

(***************************************************************************)
(* The player's sendCommand one port access at a time                      *)
(* (segavideo_menu.c:220-251, src/player/src/segavideo_player.c:607-620),  *)
(* with the fetch threads of the device running in between.                *)
(***************************************************************************)
\* An isSegaInControl that answers yes whatever it reads.
isSegaInControl_Always(value) == TRUE

\* isSegaInControl on the word read from the token port: bit zero.
isSegaInControl(value) ==
  value % 2 = TOKEN_CONTROL_TO_SEGA

\* The word a read of the token port returns (kinetoscope.c:625-628).
TokenPortValue(k) == IF k.token # 0 THEN 1 ELSE 0

\* The commands the player sends in a session.
PlayerCommands == { <<CMD_START_VIDEO, 0>>, <<CMD_FLIP_REGION, 0>> }

\* sendCommand reads the token (a read that runs no command: one that does
\* is ConsoleRead, and this read follows it) and returns false or goes on.
PlayerCall ==
  /\ emu_pc = "idle"
  /\ ~crashed
  /\ player_pc = "idle"
  /\ handoffs < MaxCommands
  /\ ~ReadExecutes(K)
  /\ \E c \in PlayerCommands :
       IF isSegaInControl(TokenPortValue(kinetoscope_read_16(K, KINETOSCOPE_PORT_TOKEN)))
         THEN /\ player_pc' = "command"
              /\ sending' = c
              /\ send_result' = "none"
         ELSE /\ send_result' = "false"
              /\ UNCHANGED <<player_pc, sending>>
  /\ UNCHANGED <<ctx_vars, fw_vars, playback_vars, served, handoffs, executions, reruns,
                 failures, stream, fed, written>>

\* writeCommand: *KINETOSCOPE_PORT_COMMAND = command.
PlayerWriteCommand ==
  /\ emu_pc = "idle"
  /\ ~crashed
  /\ player_pc = "command"
  /\ Commit(kinetoscope_write_16(K, KINETOSCOPE_PORT_COMMAND, sending[1]))
  /\ player_pc' = "arg"
  /\ UNCHANGED <<sending, send_result, playback_vars>>
  /\ UNCHANGED <<fw_vars, served, handoffs, executions, reruns, failures,
                 stream, fed, written>>

\* writeCommand: *KINETOSCOPE_PORT_ARG = arg0.
PlayerWriteArg ==
  /\ emu_pc = "idle"
  /\ ~crashed
  /\ player_pc = "arg"
  /\ Commit(kinetoscope_write_16(K, KINETOSCOPE_PORT_ARG, sending[2]))
  /\ player_pc' = "token"
  /\ UNCHANGED <<sending, send_result, playback_vars>>
  /\ UNCHANGED <<fw_vars, served, handoffs, executions, reruns, failures,
                 stream, fed, written>>

\* passControlToStreamer, and sendCommand returns true.
PlayerPassControl ==
  /\ emu_pc = "idle"
  /\ ~crashed
  /\ player_pc = "token"
  /\ Commit(kinetoscope_write_16(K, KINETOSCOPE_PORT_TOKEN,
                                 TOKEN_CONTROL_TO_STREAMER))
  /\ player_pc' = "idle"
  /\ send_result' = "true"
  /\ handoffs' = handoffs + 1
  /\ executions' = 0
  /\ UNCHANGED <<sending, playback_vars>>
  /\ UNCHANGED <<fw_vars, served, reruns, failures, stream, fed, written>>

PlayerSpecInit ==
  /\ EmuInit
  /\ FwInit
  /\ PlayerInit
  /\ served = "raw3"
  /\ stream = << >>
  /\ fed = 0
  /\ written = << >>

PlayerNext ==
  \/ PlayerCall
  \/ PlayerWriteCommand
  \/ PlayerWriteArg
  \/ PlayerPassControl
  \/ ConsoleRead
  \/ EmuFetchChunk
  \/ ConsoleClearError
  \/ ClockTick
  \/ FetchDeliver
  \/ FetchDone
  \/ FetchReturnToken

SpecPlayer == PlayerSpecInit /\ [][PlayerNext]_vars

(***************************************************************************)
(* The march test in a streaming session: the console starts the video,    *)
(* flips and runs passes of the test (hardware-test main.c:360-407).       *)
(***************************************************************************)
MarchPasses == 0..(SRAM_MARCH_TEST_NUM_PASSES - 1)

\* The console's next command: the next step of the session (start the
\* video, then flip), or a pass of the test; passes follow each other in
\* order, as in the loop of the hardware test, which may start at any pass.
MarchCommands ==
  (IF handoffs = 0 THEN {<<CMD_START_VIDEO, 0>>} ELSE {<<CMD_FLIP_REGION, 0>>})
    \cup {<<CMD_MARCH_TEST, pass>> :
            pass \in IF handoffs > 0 /\ command = CMD_MARCH_TEST
                       THEN {arg + 1} \cap MarchPasses
                       ELSE MarchPasses}

MarchInit ==
  /\ EmuInit
  /\ FwInit
  /\ PlayerInit
  /\ served = "raw3"
  /\ stream = << >>
  /\ fed = 0
  /\ written = << >>

MarchSendCommand == SendCommand(MarchCommands)

MarchNext ==
  \/ MarchSendCommand
  \/ ConsoleRead
  \/ EmuFetchChunk
  \/ EmuMarchWrite
  \/ ConsoleClearError
  \/ ClockTick
  \/ FetchDeliver
  \/ FetchDone
  \/ FetchReturnToken

SpecMarch == MarchInit /\ [][MarchNext]_vars

(***************************************************************************)
(* The RLE decoder on its own: a compressed stream is drawn at the start   *)
(* and fed to rle_to_sram in buffers of every length, after rle_reset.     *)
(***************************************************************************)
\* The bytes of the streams: control bytes for a literal run of 0, 1 or 2
\* bytes (0, 1, 2) and for a repeat of 0 or 2 (128, 130), and a data byte.
RleAlphabet == {0, 1, 2, 128, 130, 65}

RECURSIVE Streams(_)
\* The streams of exactly n bytes.
Streams(n) ==
  IF n = 0 THEN {<< >>}
  ELSE {<<b>> \o t : b \in RleAlphabet, t \in Streams(n - 1)}

RleInit ==
  /\ EmuInit
  /\ FwInit
  /\ PlayerInit
  /\ served = "raw3"
  /\ stream \in UNION {Streams(n) : n \in 1..MaxStream}
  /\ fed = 0
  /\ written = << >>

\* rle_to_sram on the next n bytes of the stream.
RleFeed ==
  /\ fed < Len(stream)
  /\ \E n \in 1..(Len(stream) - fed) :
       LET buffer == SubSeq(stream, fed + 1, fed + n)
           r == rle_decode(rle_pending_repeats, rle_pending_literals, buffer)
       IN  /\ Commit(rle_to_sram(K, buffer))
           /\ written' = written \o Flatten(r.writes)
           /\ fed' = fed + n
  /\ UNCHANGED <<fw_vars, player_vars, served, handoffs, executions, reruns, failures, stream>>

RleNext == RleFeed

SpecRle == RleInit /\ [][RleNext]_vars

\* What one call on the whole stream, after rle_reset, gives to SRAM_WRITE.
RleWhole(c) == Flatten(rle_decode(0, 0, c).writes)

\* C1: when the whole of a compressed stream has been fed to rle_to_sram in
\* any number of non-empty buffers after rle_reset, the bytes given to the
\* SRAM sink are, in order, those of one call on the whole stream.
C1_FragmentedEqualsWhole ==
  fed = Len(stream) => written = RleWhole(stream)

RECURSIVE CommandStarts(_, _)
\* The positions from p on at which a command of the stream s starts: a
\* control byte with the top bit set is followed by one data byte, any
\* other by as many literal bytes as it says.
CommandStarts(s, p) ==
  IF p > Len(s) THEN {}
  ELSE {p} \cup CommandStarts(s, p + 1 + (IF s[p] >= 128 THEN 1 ELSE s[p]))

\* The input fed so far ends immediately after a repeat control byte.
EndsAfterRepeatControl ==
  /\ 0 < fed
  /\ fed < Len(stream)
  /\ fed \in CommandStarts(stream, 1)
  /\ stream[fed] >= 128

\* C20: when the input so far ends immediately after a repeat control byte
\* of count n (0 included), the next call of rle_to_sram gives to the SRAM
\* sink n times the first byte of its buffer and then what the rest of the
\* buffer decodes to as a stream of its own.
C20_RepeatAcrossBuffers ==
  [][(EndsAfterRepeatControl /\ fed' > fed) =>
       written' = written
                    \o Flatten(rle_output_repeats(stream[fed + 1],
                                                  stream[fed] % 128))
                    \o RleWhole(SubSeq(stream, fed + 2, fed'))]_vars

\* C21: between the calls of rle_to_sram, whatever the buffers, the two
\* pending counters are in 0..127 and at most one of them is not 0.
C21_OnePendingCounter ==
  /\ rle_pending_repeats \in 0..127
  /\ rle_pending_literals \in 0..127
  /\ rle_pending_repeats = 0 \/ rle_pending_literals = 0

\* The input has ended after a literal run and a repeat control byte: a
\* repeat is pending.
C21_Witness ==
  /\ stream = <<2, 65, 65, 130>>
  /\ fed = Len(stream)
  /\ written = <<65, 65>>
  /\ rle_pending_repeats = 2
  /\ rle_pending_literals = 0

(***************************************************************************)
(* The SRAM writer on its own: reset_sram and write_sram are called in any *)
(* order, on either bank and on buffers of several lengths; `written` logs *)
(* the calls.                                                              *)
(***************************************************************************)
RECURSIVE Buffers(_)
\* The buffers of exactly n bytes over two byte values.
Buffers(n) ==
  IF n = 0 THEN {<< >>}
  ELSE {<<b>> \o t : b \in {17, 34}, t \in Buffers(n - 1)}

\* A buffer of n bytes, each different from its neighbours.
Ramp(n) == [i \in 1..n |-> 64 + i]

\* The buffers written: the short ones, and those that end one byte before
\* the end of a bank, at its end and one byte after it.
SramBuffers ==
  UNION {Buffers(n) : n \in 0..MaxData}
    \cup {Ramp(SRAM_BANK_SIZE_BYTES + d) : d \in {-1, 0, 1}}

SramInit ==
  /\ EmuInit
  /\ FwInit
  /\ PlayerInit
  /\ served = "raw3"
  /\ stream = << >>
  /\ fed = 0
  /\ written = << >>

SramReset ==
  /\ Len(written) < MaxCalls
  /\ \E bank \in {0, 1} :
       /\ Commit(reset_sram(K, bank))
       /\ written' = Append(written, [op |-> "reset_sram", bank |-> bank])
  /\ UNCHANGED <<fw_vars, player_vars, served, handoffs, executions, reruns, failures, stream, fed>>

SramWrite ==
  /\ Len(written) < MaxCalls
  /\ \E data \in SramBuffers :
       /\ Commit(write_sram(K, data))
       /\ written' = Append(written, [op |-> "write_sram", data |-> data])
  /\ UNCHANGED <<fw_vars, player_vars, served, handoffs, executions, reruns, failures, stream, fed>>

SramNext == SramReset \/ SramWrite

SpecSram == SramInit /\ [][SramNext]_vars

(***************************************************************************)
(* The header validators on their own: the shared parser                   *)
(* (src/player/src/segavideo_parser.c), built for the console, for a       *)
(* big-endian or for a little-endian host, and the copy in the streamer    *)
(* ROM (src/software/player/src/segavideo_player.c), built for the console *)
(* only.  The header is at its real layout here: magic[16], format, and    *)
(* the two bytes of frameRate standing for every later field.              *)
(***************************************************************************)
\* SEGAVIDEO_HEADER_MAGIC at its full length: "what nintendon't".
MagicLiteral ==
  <<119, 104, 97, 116, 32, 110, 105, 110, 116, 101, 110, 100, 111, 110, 39, 116>>

\* offsetof(SegaVideoHeader, format) and the bytes of header modelled.
FORMAT_OFFSET == Len(MagicLiteral)

\* The builds of the parser: SGDK (the console, big-endian) and the hosts.
ParserHosts == {"sgdk", "big", "little"}

\* header->format: a uint16_t read from memory in the host's byte order.
LoadU16(bytes, off, host) ==
  IF host = "little"
    THEN bytes[off + 1] + 256 * bytes[off + 2]
    ELSE 256 * bytes[off + 1] + bytes[off + 2]

\* An ntohs that leaves its argument alone on every host.
ntohs_Identity(x, host) == x

\* ntohs: the identity macro under SGDK and on a big-endian host, a swap of
\* the two bytes on a little-endian one.
ntohs(x, host) ==
  IF host = "little" THEN (x % 256) * 256 + (x \div 256) ELSE x

\* The loop over header->magic: FALSE at the first byte that differs.
RECURSIVE MagicLoop(_, _)
MagicLoop(videoData, i) ==
  IF i >= Len(MagicLiteral) THEN TRUE
  ELSE IF videoData[i + 1] # MagicLiteral[i + 1] THEN FALSE
  ELSE MagicLoop(videoData, i + 1)

\* segavideo_validateHeader of the shared parser.
segavideo_validateHeader(videoData, host) ==
  IF ~MagicLoop(videoData, 0) THEN FALSE
  ELSE IF ntohs(LoadU16(videoData, FORMAT_OFFSET, host), host)
            # SEGAVIDEO_HEADER_FORMAT THEN FALSE
  ELSE TRUE

\* segavideo_validateHeader of the streamer ROM: the field compared as read.
rom_validateHeader(videoData) ==
  IF ~MagicLoop(videoData, 0) THEN FALSE
  ELSE IF LoadU16(videoData, FORMAT_OFFSET, "sgdk") # SEGAVIDEO_HEADER_FORMAT
    THEN FALSE
  ELSE TRUE

\* Values for a changed byte of the magic, for a byte of format, and for a
\* byte of the fields after format.
MagicBytes(m) == {0, 255, m + 1, m - 1, (m + 32) % 256} \ {m}
FormatBytes == {0, 1, 3, 255}
OtherBytes == {0, 255}

\* The magic as it is, or with one byte changed.
MagicInputs ==
  {MagicLiteral}
    \cup {[MagicLiteral EXCEPT ![i] = b] :
            <<i, b>> \in {p \in (1..Len(MagicLiteral)) \X (0..255) :
                            p[2] \in MagicBytes(MagicLiteral[p[1]])}}

HeaderInputs ==
  {m \o <<hi, lo, o, o>> :
     <<m, hi, lo, o>> \in MagicInputs \X FormatBytes \X FormatBytes \X OtherBytes}

HeaderInit ==
  /\ EmuInit
  /\ FwInit
  /\ PlayerInit
  /\ served = "raw3"
  /\ stream \in HeaderInputs
  /\ fed = 0
  /\ written = << >>

\* The parser validates the header, in one of its builds.
ParserValidate ==
  /\ Len(written) < MaxValidations
  /\ \E host \in ParserHosts :
       written' = Append(written,
                         [op |-> "parser", host |-> host,
                          valid |-> segavideo_validateHeader(stream, host)])
  /\ UNCHANGED <<ctx_vars, fw_vars, player_vars, served, handoffs, executions, reruns, failures,
                 stream, fed>>

\* The streamer ROM validates the header.
RomValidate ==
  /\ Len(written) < MaxValidations
  /\ written' = Append(written,
                       [op |-> "rom", host |-> "sgdk",
                        valid |-> rom_validateHeader(stream)])
  /\ UNCHANGED <<ctx_vars, fw_vars, player_vars, served, handoffs, executions, reruns, failures,
                 stream, fed>>

HeaderNext == ParserValidate \/ RomValidate

SpecHeader == HeaderInit /\ [][HeaderNext]_vars

\* The last two calls were reset_sram(bank) and write_sram(data).
ResetThenWrite(bank, data) ==
  /\ Len(written) >= 2
  /\ written[Len(written) - 1] = [op |-> "reset_sram", bank |-> bank]
  /\ written[Len(written)] = [op |-> "write_sram", data |-> data]

\* base(b): 0 for bank 0, the bank size for bank 1.
BankBase(bank) == IF bank # 0 THEN SRAM_BANK_1_OFFSET ELSE SRAM_BANK_0_OFFSET

\* C10: after reset_sram(b); write_sram(data) with base(b) + len within the
\* SRAM, data[i] is the byte at physical offset (base(b) + i) XOR 1 for
\* every i < len, and the cursor is base(b) + len.
C10_WriteAfterReset ==
  \A bank \in {0, 1}, data \in SramBuffers :
    (ResetThenWrite(bank, data) /\ BankBase(bank) + Len(data) <= SRAM_SIZE)
      => /\ \A i \in 0..(Len(data) - 1) :
              sram[Xor1(BankBase(bank) + i)] = data[i + 1]
         /\ sram_offset = BankBase(bank) + Len(data)

\* An odd number of bytes has been written from the base of bank 1, up to
\* one byte before the end of the SRAM, after a write of other data.
C10_Witness ==
  /\ Len(written) = 3
  /\ written[1] = [op |-> "write_sram", data |-> <<17>>]
  /\ ResetThenWrite(1, Ramp(SRAM_BANK_SIZE_BYTES - 1))
  /\ sram[Xor1(SRAM_SIZE - 2)] = 64 + SRAM_BANK_SIZE_BYTES - 1
  /\ sram_offset = SRAM_SIZE - 1

\* The step is a call write_sram(data).
WriteStep(data) ==
  /\ Len(written') = Len(written) + 1
  /\ written'[Len(written')] = [op |-> "write_sram", data |-> data]

\* The physical offsets a write of len bytes at the cursor stores to.
StoredAt(offset, len) == {Xor1(offset + i) : i \in 0..(len - 1)}

\* C11: a write_sram with cursor + len > SRAM_SIZE changes no byte of the
\* SRAM, does not move the cursor and latches no error; every other write
\* stores below SRAM_SIZE only, and the cursor never exceeds SRAM_SIZE.
C11_OverflowDropped ==
  [][\A data \in SramBuffers :
       WriteStep(data) =>
         /\ sram_offset + Len(data) > SRAM_SIZE =>
               /\ sram' = sram
               /\ sram_offset' = sram_offset
               /\ error' = error
               /\ error_str' = error_str
         /\ sram_offset + Len(data) <= SRAM_SIZE =>
               \A a \in StoredAt(sram_offset, Len(data)) : a < SRAM_SIZE
         /\ sram_offset' <= SRAM_SIZE]_vars

\* A write that did not fit has been dropped with the cursor one byte
\* before the end of the SRAM.
C11_Witness ==
  /\ Len(written) = 3
  /\ written[1] = [op |-> "reset_sram", bank |-> 1]
  /\ written[2] = [op |-> "write_sram",
                   data |-> Ramp(SRAM_BANK_SIZE_BYTES - 1)]
  /\ written[3] = [op |-> "write_sram", data |-> Ramp(SRAM_BANK_SIZE_BYTES)]
  /\ sram_offset = SRAM_SIZE - 1

\* C24: a write_sram of odd length at an even cursor, within the SRAM,
\* stores data[i] at the physical offset (cursor + i) XOR 1 for i < len and
\* leaves every other byte as it was; the other byte of the last 16-bit
\* word, at the physical offset cursor + len - 1, is one of those.
C24_OddWriteKeepsOtherByte ==
  [][\A data \in SramBuffers :
       (/\ WriteStep(data)
        /\ Len(data) % 2 = 1
        /\ sram_offset % 2 = 0
        /\ sram_offset + Len(data) <= SRAM_SIZE)
         => /\ \A i \in 0..(Len(data) - 1) :
                 sram'[Xor1(sram_offset + i)] = data[i + 1]
            /\ \A a \in DOMAIN sram :
                 a \notin StoredAt(sram_offset, Len(data)) => sram'[a] = sram[a]
            /\ sram_offset + Len(data) - 1 \notin StoredAt(sram_offset, Len(data))
            /\ sram'[sram_offset + Len(data) - 1]
                 = sram[sram_offset + Len(data) - 1]]_vars

\* One byte has been written at the base of bank 0 over a full bank of
\* other data: the second byte of that data is still in the first word.
C24_Witness ==
  /\ Len(written) = 3
  /\ written[1] = [op |-> "write_sram", data |-> Ramp(SRAM_BANK_SIZE_BYTES)]
  /\ written[2] = [op |-> "reset_sram", bank |-> 0]
  /\ written[3] = [op |-> "write_sram", data |-> <<17>>]
  /\ sram[1] = 17
  /\ sram[0] = 66
  /\ sram_offset = 1

(***************************************************************************)
(* Properties of the command processor and the chunk pipeline.             *)
(***************************************************************************)
\* The fetch threads whose transfer has not ended.
InFlight == {i \in 1..Len(fetches) : fetches[i].pc = "transfer"}

\* The byte at logical offset a of the SRAM, as the console reads it.
Logical(a) == sram[Xor1(a)]

\* C2: a byte of the SRAM is modified only while the token is
\* device-owned; no write of a command, the chunk fetch that FLIP_REGION
\* starts included, happens after the token has returned.
C2_SramOnlyUnderToken ==
  [][sram' # sram => token = TOKEN_CONTROL_TO_STREAMER]_vars

\* C2, amended: a byte of the SRAM is modified only while the token is
\* device-owned, or a command is still in progress, or a chunk fetch is in
\* flight (the chunk fetch FLIP_REGION starts writes its chunk after the
\* token has returned).
C2_SramUnderTokenOrFetch ==
  [][sram' # sram =>
       \/ token = TOKEN_CONTROL_TO_STREAMER
       \/ command_busy
       \/ fetch_busy]_vars

\* The chunk fetch of a FLIP_REGION has written part of its chunk while the
\* console owns the token and sends nothing.
C2_Witness ==
  /\ token = TOKEN_CONTROL_TO_SEGA
  /\ command = CMD_FLIP_REGION
  /\ ~command_busy
  /\ fetch_busy
  /\ \E i \in InFlight :
       /\ fetches[i].done = "fetch_chunk_done"
       /\ fetches[i].sent > 0
  /\ Logical(sram_offset - 1) = 49

\* C4: between one console write to the token port and the next,
\* execute_command runs at most once.
C4_ExecutedAtMostOnce == executions <= 1

\* C6: at most one HTTP fetch is in flight at any time.
C6_OneFetchInFlight == Cardinality(InFlight) <= 1

\* The emulator thread makes the fetch_chunk call of a FLIP_REGION.
FlipFetchStep == emu_pc = "fetch_chunk" /\ emu_pc' = "idle"

\* A register read runs a FLIP_REGION.
FlipExecStep ==
  /\ command = CMD_FLIP_REGION
  /\ ReadExecutes(K)
  /\ executions' = executions + 1

\* C5: a FLIP_REGION whose fetch_chunk finds fetch_busy set leaves error
\* = 1 and the error string "Underflow detected! Internet too slow?",
\* starts no fetch and changes none of chunk_num, chunks_left and the read
\* offset; one that finds fetch_busy clear latches no error.
C5_UnderflowReported ==
  [][FlipFetchStep =>
       IF fetch_busy
         THEN /\ error' = 1
              /\ error_str' = MSG_UNDERFLOW
              /\ started' = << >>
              /\ chunk_num' = chunk_num
              /\ chunks_left' = chunks_left
              /\ video_url_start_byte' = video_url_start_byte
         ELSE /\ error' = error
              /\ error_str' = error_str]_vars

\* C5, amended: as C5, but the error string is the underflow message only
\* when no error was latched before the FLIP_REGION; a latched error keeps
\* its message.
C5_UnderflowLatched ==
  [][FlipFetchStep =>
       IF fetch_busy
         THEN /\ error' = 1
              /\ error_str' = (IF error = 0 THEN MSG_UNDERFLOW ELSE error_str)
              /\ started' = << >>
              /\ chunk_num' = chunk_num
              /\ chunks_left' = chunks_left
              /\ video_url_start_byte' = video_url_start_byte
         ELSE /\ error' = error
              /\ error_str' = error_str]_vars

\* After a START_VIDEO that succeeded, the second of two FLIP_REGIONs has
\* reported an underflow and returned the token while the chunk fetch the
\* first one started is still in flight.
C5_Witness ==
  /\ command = CMD_FLIP_REGION
  /\ token = TOKEN_CONTROL_TO_SEGA
  /\ error = 1
  /\ error_str = MSG_UNDERFLOW
  /\ fetch_busy
  /\ Cardinality(InFlight) = 1
  /\ chunk_num = 2
  /\ failures = 0
  /\ reruns = 0

\* The header START_VIDEO copies to the SRAM: that of the video file, with
\* the compression field cleared.
HeaderCopy(d) == FileHeader([d EXCEPT !.compression = 0], <<0, 0>>)

\* Chunk n of a video as the console is to see it.
Decoded(d, n) ==
  IF d.compression # 0 THEN RleWhole(d.chunks[n + 1]) ELSE d.chunks[n + 1]

\* The SRAM mem holds bytes, in logical order, from logical offset base.
HoldsAt(mem, base, bytes) ==
  \A i \in 1..Len(bytes) : mem[Xor1(base + i - 1)] = bytes[i]

\* The token of a START_VIDEO returns.
StartReturns ==
  /\ command = CMD_START_VIDEO
  /\ token = TOKEN_CONTROL_TO_STREAMER
  /\ token' = TOKEN_CONTROL_TO_SEGA

\* The SRAM mem holds the start of a session of video d.
SessionStartIn(mem, d) ==
  /\ HoldsAt(mem, SRAM_BANK_0_OFFSET, HeaderCopy(d))
  /\ d.totalChunks > 0 => HoldsAt(mem, HEADER_SIZE, Decoded(d, 0))
  /\ d.totalChunks > 1 => HoldsAt(mem, SRAM_BANK_1_OFFSET, Decoded(d, 1))

\* C7: when START_VIDEO returns the token with error = 0, fetch_busy is
\* false and the SRAM holds, in logical order, the header at offset 0 of
\* bank 0, chunk 0 directly after it and, when the video has more than one
\* chunk, chunk 1 at the base of bank 1.
C7_StartLeavesSessionReady ==
  [][(StartReturns /\ error' = 0) =>
       /\ ~fetch_busy'
       /\ SessionStartIn(sram', VideoDesc(served))]_vars

\* The file offset and the length of chunk n of video d.
ChunkRange(d, n) ==
  IF d.compression # 0
    THEN [first_byte |-> ChunkOffset(d, Min(n, Len(d.chunks))),
          size |-> ChunkOffset(d, Min(n + 1, Len(d.chunks)))
                     - ChunkOffset(d, Min(n, Len(d.chunks)))]
    ELSE [first_byte |-> HEADER_SIZE + n * d.chunkSize, size |-> d.chunkSize]

\* C8: a FLIP_REGION with chunks remaining whose fetch_chunk finds no
\* fetch busy starts exactly one fetch, for chunk chunk_num of the video,
\* written from the base of bank (chunk_num mod 2); a FLIP_REGION run with
\* chunks_left = 0 starts no fetch, writes nothing and latches no error.
C8_FlipStartsOneFetch ==
  [][/\ (FlipFetchStep /\ ~fetch_busy) =>
          /\ Len(started') = 1
          /\ started'[1].sink = "sram"
          /\ started'[1].url = video_url
          /\ started'[1].first_byte
               = ChunkRange(VideoDesc(served), chunk_num).first_byte
          /\ sram_offset' = BankBase(chunk_num % 2)
     /\ (FlipExecStep /\ chunks_left = 0) =>
          /\ started' = << >>
          /\ fetches' = fetches
          /\ sram' = sram
          /\ sram_offset' = sram_offset
          /\ error' = error
          /\ error_str' = error_str]_vars

\* The chunk fetches the last step started.
StartedChunkFetches ==
  {started[i] : i \in {j \in 1..Len(started) :
                         started[j].done = "fetch_chunk_done"}}

\* C9: the fetch of chunk n = chunk_num asks, for a raw video, for
\* chunk_size bytes at sizeof(header) + n * chunk_size and, for a
\* compressed one, for index.offset[n + 1] - index.offset[n] bytes at
\* index.offset[n], the read offset being index.offset[chunk_num].
C9_ChunkRequest ==
  \A c \in StartedChunkFetches :
    IF compressed
      THEN /\ video_url_start_byte = ChunkOffsetAt(K, chunk_num)
           /\ c.first_byte = ChunkOffsetAt(K, chunk_num)
           /\ c.size = ChunkOffsetAt(K, chunk_num + 1)
                         - ChunkOffsetAt(K, chunk_num)
      ELSE /\ c.first_byte = HEADER_SIZE + chunk_num * chunk_size
           /\ c.size = chunk_size

\* C12: the error string changes only in a step that finds error = 0 and
\* leaves error = 1; while error = 1 no step changes it, whether the step
\* reports errors or not; and a write of any value to the error port gives
\* error = 0 and the same error string.
C12_ErrorLatch ==
  [][/\ error_str' # error_str => (error = 0 /\ error' = 1)
     /\ error = 1 => error_str' = error_str
     /\ \A value \in ErrorPortValues :
          LET k == kinetoscope_write_16(K, KINETOSCOPE_PORT_ERROR, value)
          IN  k.error = 0 /\ k.error_str = error_str
     /\ (error = 1 /\ error' = 0) => error_str' = error_str]_vars

\* An unrecognized command has completed while an earlier error was still
\* latched: its own message was dropped.
C12_Witness ==
  /\ command = 255
  /\ executions = 1
  /\ token = TOKEN_CONTROL_TO_SEGA
  /\ error = 1
  /\ error_str # NULL
  /\ error_str # MsgUnrecognized(255)

\* A register read runs GET_ERROR while the error of an unrecognized
\* command 0xFF is latched.
GetErrorStep ==
  /\ command = CMD_GET_ERROR
  /\ ReadExecutes(K)
  /\ executions' = executions + 1
  /\ error = 1
  /\ error_str = MsgUnrecognized(255)

\* C13: after command 0xFF sent with error = 0 and then GET_ERROR, the
\* token has returned, error = 1 and bank 0 begins, in logical order, with
\* "Unrecognized command 0xFF!" and a zero byte after it.
C13_GetErrorTerminated ==
  [][GetErrorStep =>
       /\ token' = TOKEN_CONTROL_TO_SEGA
       /\ error' = 1
       /\ HoldsAt(sram', SRAM_BANK_0_OFFSET, MsgUnrecognized(255) \o <<0>>)]_vars

\* The step in which CMD_ECHO writes its value and returns.
EchoReturns ==
  /\ command = CMD_ECHO
  /\ emu_pc' = "idle"
  /\ \/ emu_pc = "echo"
     \/ emu_pc = "idle" /\ ReadExecutes(K) /\ executions' = executions + 1

\* The bytes of bank 1.
Bank1(mem) == [a \in SRAM_BANK_1_OFFSET..(SRAM_SIZE - 1) |-> mem[a]]

\* C14: when ECHO(v) completes the token is console-owned, the first byte
\* of bank 0 in logical order (physical offset 0 XOR 1) is the low byte of
\* v, the error flag is as before and bank 1 is untouched.
C14_EchoLowByte ==
  [][EchoReturns =>
       /\ token' = TOKEN_CONTROL_TO_SEGA
       /\ sram'[Xor1(SRAM_BANK_0_OFFSET)] = arg % 256
       /\ error' = error
       /\ Bank1(sram') = Bank1(sram)]_vars

\* A register read runs START_VIDEO.
StartExecStep ==
  /\ command = CMD_START_VIDEO
  /\ emu_pc = "idle"
  /\ ReadExecutes(K)
  /\ executions' = executions + 1

\* The session state.
Session ==
  <<video_url, chunk_size, chunk_num, chunks_left, video_url_start_byte,
    compressed, header, index, fetch_busy>>

\* C15: a START_VIDEO with an index above 127 leaves error = 1 (with the
\* message of the index when no error was latched), starts no fetch, writes
\* nothing to the SRAM, leaves the session state as it was and returns the
\* token; one with an index up to 127 starts exactly the fetch of
\* sizeof(header) bytes of the catalog at byte index * sizeof(header).
C15_IndexChecked ==
  [][StartExecStep =>
       IF arg > MAX_VIDEO_INDEX
         THEN /\ error' = 1
              /\ error = 0 =>
                    error_str' = MsgWithIndex(MSG_BAD_INDEX_PREFIX, arg)
              /\ started' = << >>
              /\ fetches' = fetches
              /\ sram' = sram
              /\ sram_offset' = sram_offset
              /\ Session' = Session
              /\ token' = TOKEN_CONTROL_TO_SEGA
              /\ ~command_busy'
         ELSE /\ started' = <<FetchContext("header", VIDEO_SERVER_CATALOG_URL,
                                           HEADER_SIZE * arg, HEADER_SIZE,
                                           "start_video_0", "NULL")>>
              /\ error' = error
              /\ token' = TOKEN_CONTROL_TO_STREAMER]_vars

\* START_VIDEO(127) has started its catalog fetch during a session.
C15_Witness ==
  /\ command = CMD_START_VIDEO
  /\ arg = MAX_VIDEO_INDEX
  /\ executions = 1
  /\ chunk_num = 2
  /\ Len(started) = 1
  /\ started[1].first_byte = HEADER_SIZE * MAX_VIDEO_INDEX

\* A register read runs STOP_VIDEO.
StopExecStep ==
  /\ command = CMD_STOP_VIDEO
  /\ emu_pc = "idle"
  /\ ReadExecutes(K)
  /\ executions' = executions + 1

\* flip_region run to its end from the context k (kinetoscope.c:513-519).
FlipFrom(k) ==
  LET f == flip_region(k)
  IN  IF f.emu_pc = "fetch_chunk"
        THEN fetch_chunk([f EXCEPT !.emu_pc = "idle"], "NULL")
        ELSE f

\* C16: a STOP_VIDEO returns the token and leaves the session released (no
\* video URL, no chunks left, no chunk fetch marked busy), and a
\* FLIP_REGION run from the state it leaves starts no fetch and changes no
\* byte of the SRAM.
C16_StopEndsSession ==
  [][StopExecStep =>
       /\ token' = TOKEN_CONTROL_TO_SEGA
       /\ video_url' = NULL
       /\ chunks_left' = 0
       /\ ~fetch_busy'
       /\ LET k == FlipFrom(K')
          IN  k.started = << >> /\ k.sram = sram']_vars

\* segavideo_validateHeader on the header of a video.
HeaderValid(d) ==
  d.magic = SEGAVIDEO_HEADER_MAGIC /\ d.format = SEGAVIDEO_HEADER_FORMAT

\* C17: when the video on the server has a wrong magic or a format other
\* than 3, no step of a START_VIDEO changes a byte of the SRAM, and the
\* step in which a callback completes the START_VIDEO leaves error = 1.
C17_InvalidHeaderRejected ==
  [][(/\ ~HeaderValid(VideoDesc(served))
      /\ command = CMD_START_VIDEO
      /\ token = TOKEN_CONTROL_TO_STREAMER)
       => /\ sram' = sram
          /\ (command_busy /\ ~command_busy') => error' = 1]_vars

\* The fetch with the done callback `done` ends in this step.
Finishes(done) ==
  /\ \E i \in 1..Len(fetches) :
       fetches[i].done = done /\ fetches[i].pc = "transfer"
  /\ ~\E j \in 1..Len(fetches') : fetches'[j].done = done

\* start_video_2 runs with ok = true: from the callback of the index fetch,
\* or called by start_video_1 for a video that is not compressed.
HeaderWriteStep ==
  /\ failures' = failures
  /\ \/ Finishes("start_video_2")
     \/ Finishes("start_video_1") /\ ~compressed'

\* A chunk fetch of a START_VIDEO is in flight in the fetch threads fs.
StartChunkFetchIn(fs) ==
  \E i \in 1..Len(fs) :
    /\ fs[i].pc = "transfer"
    /\ fs[i].user_ctx \in {"start_video_3", "start_video_4"}

\* C18: the header that START_VIDEO writes to the SRAM has a compression
\* field of 0, whatever the video's own field is: in the memory write_sram
\* copies from and, when no other thread is writing to the SRAM, in bank 0;
\* and while a chunk fetch of a START_VIDEO is in flight the flag
\* kinetoscope.compressed tells whether the video's field is not 0.
C18_CompressionHidden ==
  [][/\ HeaderWriteStep =>
          /\ SubSeq(header', H_COMPRESSION + 1, H_COMPRESSION + 2) = <<0, 0>>
          /\ ~SramFetchAlive(K) =>
                HoldsAt(sram', SRAM_BANK_0_OFFSET, header')
     /\ StartChunkFetchIn(fetches') =>
          compressed' = (VideoDesc(served).compression # 0)]_vars

\* The second chunk fetch of a START_VIDEO of a compressed video is in
\* flight, with the header in bank 0.
C18_Witness ==
  /\ VideoDesc(served).compression # 0
  /\ command = CMD_START_VIDEO
  /\ Len(fetches) = 1
  /\ fetches[1].user_ctx = "start_video_4"
  /\ fetches[1].sent > 0
  /\ compressed
  /\ HoldsAt(sram, SRAM_BANK_0_OFFSET, HeaderCopy(VideoDesc(served)))

\* A register read runs LIST_VIDEOS.
ListExecStep ==
  /\ command = CMD_LIST_VIDEOS
  /\ emu_pc = "idle"
  /\ ReadExecutes(K)
  /\ executions' = executions + 1

\* The catalog fetch of a LIST_VIDEOS is in flight in the fetch threads fs.
ListFetchIn(fs) ==
  \E i \in 1..Len(fs) :
    fs[i].pc = "transfer" /\ fs[i].done = "get_video_list_0"

\* C19: LIST_VIDEOS starts exactly one fetch, of the whole catalog; when
\* that fetch ends well, bank 0 holds the bytes of the catalog as the server
\* has them, in order from logical offset 0; when it fails, error = 1; and
\* the token of a LIST_VIDEOS does not return while its fetch is in flight.
C19_ListVideos ==
  [][/\ ListExecStep =>
          started' = <<FetchContext("sram", VIDEO_SERVER_CATALOG_URL, 0, -1,
                                     "get_video_list_0", "NULL")>>
     /\ Finishes("get_video_list_0") =>
          IF failures' = failures
            THEN HoldsAt(sram', SRAM_BANK_0_OFFSET,
                         CatalogFile(VideoDesc(served)))
            ELSE error' = 1
     /\ (/\ command = CMD_LIST_VIDEOS
         /\ token = TOKEN_CONTROL_TO_STREAMER
         /\ token' = TOKEN_CONTROL_TO_SEGA) => ~ListFetchIn(fetches')]_vars

\* This step starts a fetch into the SRAM.
SramFetchBegins ==
  \E i \in 1..Len(started') : started'[i].sink = "sram"

\* C22: a step that starts a fetch into the SRAM (a chunk fetch or the
\* catalog fetch) leaves both pending counters of the decoder at 0,
\* whatever the transfers before it left in them or are doing to them.
C22_DecoderResetAtFetch ==
  [][SramFetchBegins =>
       rle_pending_repeats' = 0 /\ rle_pending_literals' = 0]_vars

\* The device is at rest between commands: the console owns the token and
\* no fetch is in flight.
AtRest == token = TOKEN_CONTROL_TO_SEGA /\ InFlight = {}

MarchReturns ==
  /\ command = CMD_MARCH_TEST
  /\ arg \in MarchPasses
  /\ token = TOKEN_CONTROL_TO_STREAMER
  /\ token' = TOKEN_CONTROL_TO_SEGA

\* C25: when the token of MARCH_TEST(p) returns, for p in 0..21, the
\* console's pass p reads from bank (p & 1) the bytes the pass prescribes,
\* at every offset; the cursor is one bank's size past the base of that
\* bank; and the step that ends the pass changes no byte of the other bank.
C25_MarchPass ==
  [][MarchReturns =>
       /\ MarchReads(sram', arg)
       /\ sram_offset' = BankBase(arg % 2) + SRAM_BANK_SIZE_BYTES
       /\ \A offset \in 0..(SRAM_BANK_SIZE_BYTES - 1) :
            sram'[BankBase(1 - (arg % 2)) + offset]
              = sram[BankBase(1 - (arg % 2)) + offset]]_vars

\* The format field of the header in `stream`, read big-endian.
FormatBigEndian == 256 * stream[FORMAT_OFFSET + 1] + stream[FORMAT_OFFSET + 2]

\* C26: every validation of a header answers true exactly when its first 16
\* bytes are the magic and its format field, read big-endian, is 3: false
\* for a single changed byte of the magic and for any other format, true
\* otherwise whatever the later fields hold.
C26_ValidateHeader ==
  \A i \in 1..Len(written) :
    written[i].valid
      <=> /\ SubSeq(stream, 1, Len(MagicLiteral)) = MagicLiteral
          /\ FormatBigEndian = SEGAVIDEO_HEADER_FORMAT

\* A header with the magic, format bytes 00 03 and later fields of 0xff has
\* been accepted by the parser built for a little-endian host and by the ROM.
C26_Witness ==
  /\ stream = MagicLiteral \o <<0, 3, 255, 255>>
  /\ Len(written) = 2
  /\ written[1].op = "parser" /\ written[1].host = "little" /\ written[1].valid
  /\ written[2].op = "rom" /\ written[2].valid

\* The bytes of body that were read together with the headers.
BodyWithHeaders == read_response_headers(response_buffer).body_start_length

\* C27: once http_fetch has parsed the headers of a response, it returns
\* true only if the status is 206; for any other status it has returned
\* false without a call of the sink, and the error reported is the range
\* message for 200, the redirect message for 300..399, and the message
\* ending in the decimal status for the rest.
C27_StatusPolicy ==
  status_code # -1 =>
    /\ result = "true" => status_code = 206
    /\ status_code # 206 =>
         /\ result = "false"
         /\ sink_calls = << >>
         /\ error_buffer =
              IF status_code = 200 THEN MSG_RANGE
              ELSE IF status_code \in 300..399 THEN MSG_REDIRECT
              ELSE MSG_STATUS_PREFIX \o FormatDec(status_code)

\* A 404 whose body arrived together with its headers has been refused.
C27_Witness ==
  /\ http_pc = "idle"
  /\ status_code = 404
  /\ BodyWithHeaders = MaxHttpSize
  /\ result = "false"
  /\ sink_calls = << >>
  /\ error_buffer = MSG_STATUS_PREFIX \o <<52, 48, 52>>

\* C28: a step in which http_fetch returns false after its request was
\* written leaves the connection closed, with nothing to read, and no server
\* remembered; the http_fetch that follows a false return connects anew; and
\* in the calls of the sink for one transfer only the last can have answered
\* false.
C28_FailureCloses ==
  [][/\ (http_pc # "idle" /\ http_pc' = "idle" /\ result' = "false") =>
          /\ ~client'.open
          /\ ~connected(client')
          /\ current_server' = << >>
     /\ (http_pc = "idle" /\ http_pc' = "headers" /\ result = "false") =>
          opened'
     /\ \A i \in 1..(Len(sink_calls') - 1) : sink_calls'[i].ok]_vars

\* A transfer with status 206 has ended at the sink's false answer to its
\* second call: the connection is closed and no server is remembered.
C28_Witness ==
  /\ http_pc = "idle"
  /\ status_code = 206
  /\ result = "false"
  /\ Len(sink_calls) = 2
  /\ sink_calls[1].ok /\ ~sink_calls[2].ok
  /\ ~client.open
  /\ current_server = << >>

\* C29: an http_fetch that has been called returns, whatever the server
\* sends and whether or not it closes the connection.
C29_FetchReturns == (http_pc # "idle") ~> (http_pc = "idle")

\* C30: the command port, the argument port and the token's hand-over are
\* written only by a sendCommand that read the token as console-owned, and
\* while it still is; a sendCommand that finds the token device-owned
\* returns false and leaves the three ports as they were.
C30_PortsUnderToken ==
  [][/\ (command' # command \/ arg' # arg
           \/ (token # TOKEN_CONTROL_TO_STREAMER
                 /\ token' = TOKEN_CONTROL_TO_STREAMER)) =>
          /\ token = TOKEN_CONTROL_TO_SEGA
          /\ player_pc \in {"command", "arg", "token"}
     /\ (player_pc = "idle" /\ player_pc' = "command") =>
          token = TOKEN_CONTROL_TO_SEGA
     /\ (send_result # "false" /\ send_result' = "false") =>
          /\ token = TOKEN_CONTROL_TO_STREAMER
          /\ command' = command /\ arg' = arg /\ token' = token]_vars

\* FLIP_REGION was sent, and the sendCommand after it was refused: the
\* device still holds the token and the ports still hold FLIP_REGION.
C30_Witness ==
  /\ player_pc = "idle"
  /\ send_result = "false"
  /\ handoffs = 2
  /\ token = TOKEN_CONTROL_TO_STREAMER
  /\ command = CMD_FLIP_REGION

\* The context after a read of the token port that runs the command.
Dispatch(k) == EmuFinish(kinetoscope_read_16(k, KINETOSCOPE_PORT_TOKEN))

\* C31: a read that runs the command leaves the SRAM, the write cursor, the
\* error flag, the error message and the token as the same read does when
\* the command register holds only the low 8 bits of its value.
C31_LowByteDispatch ==
  [][(ReadExecutes(K) /\ executions' = executions + 1) =>
       \E z \in NullReads :
       LET low == Dispatch([K EXCEPT !.command = command % 256,
                                     !.at_null = z])
       IN  /\ sram' = low.sram
           /\ sram_offset' = low.sram_offset
           /\ error' = low.error
           /\ error_str' = low.error_str
           /\ token' = low.token]_vars

\* The steps of START_VIDEO that end with a fetch, by the callbacks of it.
StageCatalog == <<"start_video_0", "NULL">>
StageHeader == <<"start_video_1", "NULL">>
StageIndex == <<"start_video_2", "NULL">>
StageChunk0 == <<"fetch_chunk_done", "start_video_3">>
StageChunk1 == <<"fetch_chunk_done", "start_video_4">>
StartStages == {StageCatalog, StageHeader, StageIndex, StageChunk0, StageChunk1}

StageOf(ctx) == <<ctx.done, ctx.user_ctx>>

\* The transfers of stage st among the fetch threads fs.
StageCount(fs, st) ==
  Cardinality({i \in 1..Len(fs) : fs[i].pc = "transfer" /\ StageOf(fs[i]) = st})

\* This step starts exactly one fetch, of stage st and of the bytes
\* [first_byte, first_byte + size) of url.
BeginsOnly(st, url, first_byte, size) ==
  /\ Len(started') = 1
  /\ LET ctx == started'[1]
     IN  /\ StageOf(ctx) = st
         /\ ctx.url = url
         /\ ctx.first_byte = first_byte
         /\ ctx.size = size
  /\ StageCount(fetches', st) = StageCount(fetches, st) + 1
  /\ \A other \in StartStages \ {st} :
       StageCount(fetches', other) <= StageCount(fetches, other)

BeginsNone ==
  /\ started' = << >>
  /\ \A st \in StartStages : StageCount(fetches', st) <= StageCount(fetches, st)

\* complete_command has run on a fetch thread: the command is no longer
\* busy and the thread is about to store the token.
TokenReturning(fs, busy) ==
  /\ ~busy
  /\ \E j \in 1..Len(fs) : fs[j].pc = "token"

\* What follows the successful end of the transfer of stage st.
AfterStage(st) ==
  LET d == VideoDesc(served)
      chunk0 == BeginsOnly(StageChunk0, video_url', video_url_start_byte',
                           IF d.compression # 0
                             THEN Len(d.chunks[1]) ELSE d.chunkSize)
  IN  CASE st = StageCatalog ->
             BeginsOnly(StageHeader, video_url', 0, HEADER_SIZE)
        [] st = StageHeader ->
             IF d.compression # 0
               THEN BeginsOnly(StageIndex, video_url', HEADER_SIZE, INDEX_SIZE)
               ELSE chunk0 /\ chunk_num' = 0
        [] st = StageIndex -> chunk0 /\ chunk_num' = 0
        [] st = StageChunk0 ->
             IF d.totalChunks > 1
               THEN /\ chunk_num' = 1
                    /\ BeginsOnly(StageChunk1, video_url', video_url_start_byte',
                                  IF d.compression # 0
                                    THEN Len(d.chunks[2]) ELSE d.chunkSize)
               ELSE BeginsNone /\ TokenReturning(fetches', command_busy')
        [] st = StageChunk1 ->
             BeginsNone /\ TokenReturning(fetches', command_busy')

\* C32: the START_VIDEO that runs with a valid index starts the fetch of the
\* catalog entry [arg * HEADER_SIZE, + HEADER_SIZE) and nothing else; the
\* successful end of each transfer starts the next one and only it, in the
\* order catalog entry, header [0, HEADER_SIZE) of the video, index (only
\* for a compressed video), chunk 0, chunk 1 (only when the video has more
\* than one chunk), and the last one returns the token; a transfer that
\* fails leaves error = 1, starts nothing and returns the token.
C32_StartFetchOrder ==
  [][/\ (StartExecStep /\ arg <= MAX_VIDEO_INDEX) =>
          BeginsOnly(StageCatalog, VIDEO_SERVER_CATALOG_URL,
                     HEADER_SIZE * arg, HEADER_SIZE)
     /\ \A i \in 1..Len(fetches) :
          LET ctx == fetches[i]
              st == StageOf(ctx)
              body == FetchBody(served, ctx.url, ctx.first_byte, ctx.size)
          IN  (/\ ctx.pc = "transfer"
               /\ st \in StartStages
               /\ StageCount(fetches', st) < StageCount(fetches, st)) =>
                IF failures' = failures /\ body # << >>
                  THEN AfterStage(st)
                  ELSE /\ error' = 1
                       /\ BeginsNone
                       /\ TokenReturning(fetches', command_busy')]_vars

\* C33: read_response_headers succeeds on a well-formed answer whose
\* Content-Length header is the first, a middle, the last or the only header
\* and whose lines end in CR LF or in LF alone, with the status code, with
\* body_length the header's value, body_start the first byte after the blank
\* line and body_start_length the count of body bytes in the buffer.
C33_ContentLengthAnywhere ==
  Len(written) = 2 =>
    written[2] = [ok |-> TRUE,
                  status_code |-> strtol(written[1].status),
                  body_length |-> written[1].body_length,
                  body_start |-> Len(stream) - written[1].sent,
                  body_start_length |-> written[1].sent]

\* C34: when the player goes on to chunk n + 1 of a stream in which no
\* fetch failed and no command ran twice, the address it computes for the
\* chunk from the end of chunk n lies in the SRAM window and the device has
\* written chunk n + 1 there: at the base of bank (n + 1) mod 2.
C34_PlacementAgrees ==
  [][(/\ currentChunkNum' = currentChunkNum + 1
      /\ currentChunkNum' < totalChunks
      /\ failures = 0
      /\ reruns = 0
      /\ error = 0) =>
       LET d == VideoDesc(served)
           offset == currentChunk'.start - KINETOSCOPE_VIDEO_DATA
       IN  /\ offset = IF currentChunkNum' % 2 = 1 THEN SRAM_BANK_1_OFFSET
                                                    ELSE SRAM_BANK_0_OFFSET
           /\ HoldsAt(sram, offset, d.chunks[currentChunkNum' + 1])]_vars

\* The bytes the console reads from a bank that holds these words.
WordBytesOf(words) ==
  [i \in 1..(2 * Len(words)) |->
     IF i % 2 = 1 THEN words[(i + 1) \div 2] \div 256
                  ELSE words[i \div 2] % 256]

\* C35: the message that GET_ERROR delivers while the error flag is set is
\* the first one reported since the flag was last clear, and a report made
\* while the flag is set leaves the stored message as it was.
C35_FirmwareLatch ==
  [][/\ (err_flagged /\ stream' # stream /\ written' = written
           /\ active_bank_pin = -1 /\ active_bank_pin' = -1) =>
          CString(WordBytesOf(sram_words')) = written[1]
     /\ (err_flagged /\ Len(written') > Len(written)) =>
          error_buffer' = error_buffer]_vars

\* The words a bank session leaves for the bytes handed to it.
Packed(bytes) ==
  [k \in 1..((Len(bytes) + 1) \div 2) |->
     MAKE_WORD(bytes[2 * k - 1],
               IF 2 * k <= Len(bytes) THEN bytes[2 * k] ELSE 0)]

\* C40: between sram_start_bank and the flush the words clocked into the
\* bank are the pairs of the bytes handed over so far, high byte first,
\* however the bytes were split over the calls, with an odd last byte
\* waiting in leftover; the flush pairs that byte with 0.
C40_SplitInvariant ==
  /\ active_bank_pin >= 0 =>
       /\ sram_words = Packed(SubSeq(stream, 1, 2 * (Len(stream) \div 2)))
       /\ leftover = IF Len(stream) % 2 = 1 THEN stream[Len(stream)] ELSE -1
  /\ active_bank_pin = -1 =>
       /\ sram_words = Packed(stream)
       /\ leftover = -1

\* A bank session of an odd number of bytes, handed over in more than one
\* call, has been flushed.
C40_Witness ==
  /\ active_bank_pin = -1
  /\ Len(stream) = 3
  /\ stream[1] # stream[2]
  /\ sram_words = <<MAKE_WORD(stream[1], stream[2]), MAKE_WORD(stream[3], 0)>>

\* totalChunks of the header the device holds.
HeaderTotalChunks(hdr) == ntohl(Load32(hdr, H_TOTAL_CHUNKS))

\* C36: a step that starts a chunk fetch starts it for a chunk number below
\* the header's totalChunks, and a step that changes chunk_num or
\* chunks_left leaves chunk_num + chunks_left = totalChunks (chunks_left
\* does not wrap below 0).
C36_ChunkCount ==
  [][/\ (\E i \in 1..Len(started') : started'[i].done = "fetch_chunk_done") =>
          chunk_num' < HeaderTotalChunks(header')
     /\ (chunk_num' # chunk_num \/ chunks_left' # chunks_left) =>
          chunk_num' + chunks_left' = HeaderTotalChunks(header')]_vars

\* The chunk fetch of a FLIP_REGION: fetch_chunk(NULL).
StageFlip == <<"fetch_chunk_done", "NULL">>

\* The second START_VIDEO has run start_video_2 and is still under way: no
\* fetch of its catalog entry, header or index is in flight.
InLaterSession ==
  /\ handoffs = MaxStaleCommands
  /\ command = CMD_START_VIDEO
  /\ executions > 0
  /\ command_busy
  /\ \A st \in {StageCatalog, StageHeader, StageIndex} :
       StageCount(fetches, st) = 0

\* C37: once the START_VIDEO that follows a STOP_VIDEO has set up its
\* session, the end of the chunk fetch of the earlier FLIP_REGION leaves
\* chunk_num, chunks_left, the read offset and the write cursor as they
\* are, and once that START_VIDEO has returned without an error a fragment
\* delivered by the earlier fetch leaves the header and the two chunks of
\* the new session in the SRAM.
C37_StaleFetchHarmless ==
  [][/\ (/\ InLaterSession
         /\ StageCount(fetches', StageFlip) < StageCount(fetches, StageFlip)) =>
          /\ chunk_num' = chunk_num
          /\ chunks_left' = chunks_left
          /\ video_url_start_byte' = video_url_start_byte
          /\ sram_offset' = sram_offset
     /\ (/\ handoffs = MaxStaleCommands
         /\ executions > 0
         /\ token = TOKEN_CONTROL_TO_SEGA
         /\ error = 0
         /\ StageCount(fetches, StageFlip) > 0
         /\ sram' # sram) =>
          SessionStartIn(sram', VideoDesc(served))]_vars

\* Where a session writes chunk n.
PrescribedCursor(n) ==
  IF n = 0 THEN HEADER_SIZE
  ELSE IF n % 2 = 1 THEN SRAM_BANK_1_OFFSET ELSE SRAM_BANK_0_OFFSET

\* C38: every step that starts a chunk fetch, of START_VIDEO or of
\* FLIP_REGION, starts it with the write cursor directly after the header
\* for chunk 0 and at the base of bank (n mod 2) for chunk n >= 1, and with
\* the decoder switched on exactly for a compressed video, whatever the
\* commands and the fetches before it were.
C38_FetchStartsAtPrescribedCursor ==
  [][(\E i \in 1..Len(started') : started'[i].done = "fetch_chunk_done") =>
       /\ sram_offset' = PrescribedCursor(chunk_num')
       /\ compressed' = (VideoDesc(served).compression # 0)]_vars

\* C39: a register read that runs GET_ERROR while error_str is NULL (no
\* error latched since kinetoscope_init) dereferences no null pointer, so
\* that the emulator lives on, leaves an empty string at the start of bank
\* 0 and returns the token.
C39_GetErrorWithoutError ==
  [][(/\ command = CMD_GET_ERROR
      /\ ReadExecutes(K)
      /\ executions' = executions + 1
      /\ error_str = NULL) =>
       /\ ~crashed'
       /\ token' = TOKEN_CONTROL_TO_SEGA
       /\ HoldsAt(sram', SRAM_BANK_0_OFFSET, <<0>>)]_vars

(***************************************************************************)
(* Progress: the clock advances, the console keeps reading the token port, *)
(* the emulator thread runs on, and every fetch thread keeps running until *)
(* its transfer ends, its callback has run and its stores are made.        *)
(***************************************************************************)
\* The commands of a streaming session.
StreamCommands == { <<CMD_START_VIDEO, 0>>, <<CMD_FLIP_REGION, 0>> }

StreamInit ==
  /\ EmuInit
  /\ FwInit
  /\ PlayerInit
  /\ served = "raw3"
  /\ stream = << >>
  /\ fed = 0
  /\ written = << >>

StreamSendCommand == SendCommand(StreamCommands)

StreamNext ==
  \/ StreamSendCommand
  \/ ConsoleRead
  \/ EmuFetchChunk
  \/ ConsoleClearError
  \/ ClockTick
  \/ FetchDeliver
  \/ FetchDone
  \/ FetchReturnToken

FairSpec ==
  /\ StreamInit
  /\ [][StreamNext]_vars
  /\ WF_vars(ClockTick)
  /\ WF_vars(ConsoleRead)
  /\ WF_vars(EmuFetchChunk)
  /\ WF_vars(FetchDeliver)
  /\ WF_vars(FetchDone)
  /\ WF_vars(FetchReturnToken)

\* C3: every command eventually returns the token (the token is
\* console-owned and command_busy is false), as long as fetches end and
\* the console keeps reading; a run in which the emulator process has died
\* is left aside.
C3_EveryCommandReturns ==
  (token = TOKEN_CONTROL_TO_STREAMER)
    ~> (crashed \/ (token = TOKEN_CONTROL_TO_SEGA /\ ~command_busy))

=============================================================================
